---------------------------- MODULE Spec2Model ----------------------------
(***************************************************************************)
(* Model of the progress/status engine of OeuvresTrack (src/api.py):       *)
(* the range-notation validator, get_status, get_ulist_text and the list   *)
(* synchronizer operations add_ulist, remove_ulist, update_ucatalog,       *)
(* toggle_giveup, set_rank and hard_reload, over the three MongoDB          *)
(* collections they touch (catalog, ucatalog, ulist) for one user.         *)
(***************************************************************************)
EXTENDS Integers, Sequences, FiniteSets, TLC

VARIABLES
    ucatalog,   \* db.ucatalog of the user: item key -> progress document or NoDoc
    ulist,      \* db.ulist of the user: the "list" array of list entries
    settings,   \* db.settings of the user: "ignore-overs" and the lexicon
    last,       \* the last request served and how it ended
    snap,       \* the two collections as they were before the last add_ulist
    pre,        \* the two collections as they were before the last request
    nops,       \* number of requests served so far
    drift,      \* settings or lexicon were changed while the list had entries
    probe,      \* input and output of a pure function under test
    dupes,      \* db.ucatalog: the documents of an item after its first one
    threads     \* the requests being served at the same time, step by step

vars == <<ucatalog, ulist, settings, last, snap, pre, nops, drift, probe,
          dupes, threads>>

(***************************************************************************)
(* Bounds of the model.                                                    *)
(***************************************************************************)
MaxTokLen == 3      \* longest string handed to the validator
MaxEp == 2          \* most episodes (tomes) of a unit given to get_status
MaxOps == 3

\* episodes of the season of the item "show"
ShowEpisodes == 12         \* requests per behaviour of the synchronizer

(***************************************************************************)
(* Python values.  A string is a sequence of one-character strings; "LF"   *)
(* stands for the newline character.  A value that can be a list or a     *)
(* bool (the "changes" of update_ucatalog) is tagged with its kind.        *)
(***************************************************************************)
Digits10 == <<"0", "1", "2", "3", "4", "5", "6", "7", "8", "9">>

IsDigit(c) == \E i \in 1..10 : Digits10[i] = c

DigitVal(c) == (CHOOSE i \in 1..10 : Digits10[i] = c) - 1

AllDigits(s) == \A i \in 1..Len(s) : IsDigit(s[i])

\* value of a non-empty string of decimal digits
RECURSIVE DigitsVal(_)
DigitsVal(s) ==
    IF Len(s) = 0 THEN 0
    ELSE 10 * DigitsVal(SubSeq(s, 1, Len(s) - 1)) + DigitVal(s[Len(s)])

\* str.strip() restricted to the one whitespace character of the alphabet
RECURSIVE StripLF(_)
StripLF(s) ==
    IF Len(s) = 0 THEN s
    ELSE IF s[1] = "LF" THEN StripLF(Tail(s))
    ELSE IF s[Len(s)] = "LF" THEN StripLF(SubSeq(s, 1, Len(s) - 1))
    ELSE s

\* int(s): surrounding whitespace is ignored, anything but digits raises
\* ValueError (a sign cannot occur: int is only applied to a "-"-free part)
PyInt(s) ==
    LET t == StripLF(s)
    IN  IF Len(t) > 0 /\ AllDigits(t)
        THEN [err |-> FALSE, v |-> DigitsVal(t)]
        ELSE [err |-> TRUE, v |-> 0]

\* index of the first "-" of s, 0 when there is none
FirstDash(s) ==
    IF \E i \in 1..Len(s) : s[i] = "-"
    THEN CHOOSE i \in 1..Len(s) : s[i] = "-" /\ \A j \in 1..(i - 1) : s[j] # "-"
    ELSE 0

\* s.split("-")
RECURSIVE SplitDash(_)
SplitDash(s) ==
    LET i == FirstDash(s)
    IN  IF i = 0 THEN <<s>>
        ELSE <<SubSeq(s, 1, i - 1)>> \o SplitDash(SubSeq(s, i + 1, Len(s)))

\* s.split("-")[-1]
LastPart(s) == SplitDash(s)[Len(SplitDash(s))]

(***************************************************************************)
(* Range notation: valid_format_ucatalalog.                                *)
(***************************************************************************)
\* re.match(r"^(\d+)(?:-(\d+))?$", chaine): "$" matches at the end of the
\* string and also just before a newline that ends the string.
\* g2 = <<>> stands for group(2) being None (a matched group is never empty).
ReMatchRange(chaine) ==
    LET core == IF Len(chaine) > 0 /\ chaine[Len(chaine)] = "LF"
                THEN SubSeq(chaine, 1, Len(chaine) - 1)
                ELSE chaine
        parts == SplitDash(core)
    IN  IF Len(parts) = 1 /\ Len(parts[1]) > 0 /\ AllDigits(parts[1])
        THEN [match |-> TRUE, g1 |-> parts[1], g2 |-> <<>>]
        ELSE IF /\ Len(parts) = 2
                /\ Len(parts[1]) > 0 /\ AllDigits(parts[1])
                /\ Len(parts[2]) > 0 /\ AllDigits(parts[2])
        THEN [match |-> TRUE, g1 |-> parts[1], g2 |-> parts[2]]
        ELSE [match |-> FALSE, g1 |-> <<>>, g2 |-> <<>>]

ValidFormatUcatalalog(chaine) ==
    LET m == ReMatchRange(chaine)
    IN  IF m.match
        THEN IF m.g2 = <<>> THEN TRUE
             ELSE DigitsVal(m.g2) > DigitsVal(m.g1)
        ELSE FALSE

(***************************************************************************)
(* Documents.  A season number is an int or a str (request.json gives      *)
(* either); a "watched" value is a list of tokens or a bool.               *)
(***************************************************************************)
IntV(n) == [t |-> "int", n |-> n, s |-> <<>>]

StrV(s) == [t |-> "str", n |-> 0, s |-> s]

\* decimal digits of a natural number
RECURSIVE NatToStr(_)
NatToStr(n) ==
    IF n < 10 THEN <<Digits10[n + 1]>>
    ELSE NatToStr(n \div 10) \o <<Digits10[(n % 10) + 1]>>

\* str(v)
PyStr(v) == IF v.t = "int" THEN StrV(NatToStr(v.n)) ELSE v

ListV(l) == [k |-> "list", b |-> FALSE, l |-> l]

BoolV(b) == [k |-> "bool", b |-> b, l |-> <<>>]

\* bool(v) of a list or a bool
\* the truth test with every bool taken for false
TruthyListOnly(v) == v.k = "list" /\ Len(v.l) > 0

Truthy(v) == IF v.k = "bool" THEN v.b ELSE Len(v.l) > 0

NoDoc == [exist |-> FALSE]

\* None (JSON null) where a string is expected
PyNone == "None"

\* a season of a tv item (get_info_about_season); ncontents is the length
\* of its "contents" list, the only thing the engine reads of it
Season(sn, n, fin) ==
    [season_number |-> IntV(sn), ncontents |-> n, finished |-> fin,
     has_finished |-> TRUE]

\* the single "Tomes :" group of a books item (get_books_by_id): it has
\* neither a "finished" nor a "season_number" key
TomeGroup(n) ==
    [season_number |-> IntV(0), ncontents |-> n, finished |-> FALSE,
     has_finished |-> FALSE]

\* element["finished"] of a tv item as get_new_element computes it
AllSeasonsFinished(contents) ==
    \A i \in 1..Len(contents) : contents[i].finished

TvItem(title, contents) ==
    [exist |-> TRUE, type |-> "tv", title |-> title, contents |-> contents,
     finished |-> AllSeasonsFinished(contents)]

BooksItem(title, n) ==
    [exist |-> TRUE, type |-> "books", title |-> title,
     contents |-> <<TomeGroup(n)>>, finished |-> FALSE]

SingleItem(type, title) ==
    [exist |-> TRUE, type |-> type, title |-> title, contents |-> <<>>,
     finished |-> FALSE]

\* one {"season_number", "watched"} sub-record of a progress document
Entry(sn, w) == [season_number |-> sn, watched |-> w]

\* a progress document as get_ucatalog returns it
UDoc(watch, rank, status) ==
    [exist |-> TRUE, watch |-> watch, rank |-> rank, status |-> status]

(***************************************************************************)
(* Status engine: get_status.  Results are [err, v]; err = TRUE stands    *)
(* for the exception the Python code raises at that point.                 *)
(***************************************************************************)
Ok(v) == [err |-> FALSE, v |-> v]

Raise == [err |-> TRUE, v |-> "raise"]

\* (len(s["contents"]) > 0 and s["finished"] is True) or len(s["contents"]) > 1
\* s["finished"] is read only when the unit is not empty; a unit without
\* the key raises KeyError there
UnfinishedPenalty(s) ==
    IF s.ncontents > 0
    THEN IF ~s.has_finished THEN [err |-> TRUE, v |-> FALSE]
         ELSE [err |-> FALSE, v |-> s.finished \/ s.ncontents > 1]
    ELSE [err |-> FALSE, v |-> FALSE]

\* next((e for e in watch if e["season_number"] == str(s["season_number"])), {})
\* as the index of the entry in watch, 0 for {}
TvUelement(watch, s) ==
    LET hit(i) == watch[i].season_number = PyStr(s.season_number)
    IN  IF \E i \in 1..Len(watch) : hit(i)
        THEN CHOOSE i \in 1..Len(watch) : hit(i) /\ \A j \in 1..(i - 1) : ~hit(j)
        ELSE 0

\* next(iter(watch), {})
BooksUelement(watch) == IF Len(watch) > 0 THEN 1 ELSE 0

\* one iteration of the loop over catalog["contents"]; acc = [err, finished, started]
StatusUnit(type, watch, s, ignore_overs, acc) ==
    LET ui == IF type = "tv" THEN TvUelement(watch, s) ELSE BooksUelement(watch)
        pen == UnfinishedPenalty(s)
    IN  IF type = "tv" /\ s.season_number = IntV(0) /\ ignore_overs THEN acc
        ELSE IF ui = 0
        THEN IF pen.err THEN [acc EXCEPT !.err = TRUE]
             ELSE IF pen.v THEN [acc EXCEPT !.finished = FALSE] ELSE acc
        ELSE LET w == watch[ui].watched
             IN  IF w.k = "bool" THEN [acc EXCEPT !.err = TRUE]   \* len(True)
                 ELSE LET a1 == IF Len(w.l) > 0
                                THEN [acc EXCEPT !.started = TRUE] ELSE acc
                      IN  IF Len(w.l) = 1
                          THEN LET up == PyInt(LastPart(w.l[1]))
                               IN  IF up.err THEN [a1 EXCEPT !.err = TRUE]
                                   ELSE IF up.v # s.ncontents
                                   THEN [a1 EXCEPT !.finished = FALSE]
                                   ELSE a1
                          ELSE IF pen.err THEN [a1 EXCEPT !.err = TRUE]
                          ELSE IF pen.v THEN [a1 EXCEPT !.finished = FALSE]
                          ELSE a1

RECURSIVE StatusLoop(_, _, _, _, _, _)
StatusLoop(type, watch, contents, i, ignore_overs, acc) ==
    IF acc.err \/ i > Len(contents) THEN acc
    ELSE StatusLoop(type, watch, contents, i + 1, ignore_overs,
                    StatusUnit(type, watch, contents[i], ignore_overs, acc))

\* lines 1260-1309: the status the watch data gives, stored status aside
StatusFromWatch(catalog, ucat, ignore_overs) ==
    LET acc == IF catalog.type \in {"tv", "books"}
               THEN StatusLoop(catalog.type, ucat.watch.l, catalog.contents,
                               1, ignore_overs,
                               [err |-> FALSE, finished |-> TRUE,
                                started |-> FALSE])
               ELSE [err |-> FALSE, finished |-> Truthy(ucat.watch),
                     started |-> FALSE]
    IN  IF acc.err THEN Raise
        ELSE IF acc.finished THEN Ok("done")
        ELSE IF acc.started THEN Ok("onwatch")
        ELSE Ok("towatch")

\* get_status with the give-up short-circuit taken whatever ignore_giveup is
GetStatusAlwaysGiveUp(catalog, ucat, ignore_giveup, ignore_overs) ==
    IF ucat.status = "giveup" THEN Ok("giveup")
    ELSE StatusFromWatch(catalog, ucat, ignore_overs)

GetStatus(catalog, ucat, ignore_giveup, ignore_overs) ==
    IF ucat.status = "giveup" /\ ~ignore_giveup THEN Ok("giveup")
    ELSE StatusFromWatch(catalog, ucat, ignore_overs)

(***************************************************************************)
(* Lexicon renderer: get_ulist_text and markdown_to_html.  A text is a    *)
(* sequence of units: the markdown characters "*", "~", "+", "_" and the   *)
(* space are units of their own, any other unit is a run of characters    *)
(* holding none of them.  "{0}" and "{1}" are the fields of a template.   *)
(***************************************************************************)
LexEntry(text, position, disabled) ==
    [text |-> text, position |-> position, disabled |-> disabled]

\* default_lexicon
DefaultLexicon ==
    [OnFinishStatus |-> <<LexEntry(<<"~", "~">>, 0, FALSE),
                          LexEntry(<<"~", "~">>, 6, FALSE)>>,
     OnTitle |-> <<LexEntry(<<"{0}">>, 1, FALSE)>>,
     OnUnfinishedSeason |-> <<LexEntry(<<"*", "s", "{0}", "*">>, 2, TRUE)>>,
     OnFinishSeason |-> <<LexEntry(<<"s", "{0}">>, 2, TRUE)>>,
     OnStartedSeason |-> <<LexEntry(<<"s", "{0}">>, 2, FALSE)>>,
     OnTome |-> <<LexEntry(<<"t", "{0}", "/", "t", "{1}">>, 2, FALSE)>>,
     OnEpisode |-> <<LexEntry(<<"e", "{0}">>, 3, FALSE)>>,
     OnRank |-> <<LexEntry(<<"*", "*", "{0}", "r", "*", "*">>, 5, FALSE)>>,
     OnGiveUp |-> <<LexEntry(<<"~", "~">>, 0, FALSE),
                    LexEntry(<<"(abandonne)", "~", "~">>, 6, FALSE)>>,
     OnUnFinishedRelease |->
        <<LexEntry(<<"*", "(pas finit de sortir)", "*">>, 4, FALSE)>>]

\* a lexicon posted by the user: default_lexicon with the "disabled" key of
\* OnUnfinishedSeason taken off
SeasonsLexicon ==
    [DefaultLexicon EXCEPT
        !.OnUnfinishedSeason = <<LexEntry(<<"*", "s", "{0}", "*">>, 2, FALSE)>>]

\* a lexicon posted by the user: default_lexicon with the "disabled" key of
\* OnFinishSeason and of OnUnfinishedSeason taken off
MarkersLexicon ==
    [DefaultLexicon EXCEPT
        !.OnFinishSeason = <<LexEntry(<<"s", "{0}">>, 2, FALSE)>>,
        !.OnUnfinishedSeason = <<LexEntry(<<"*", "s", "{0}", "*">>, 2, FALSE)>>]

\* the entries of an event without the "disabled" key
RECURSIVE Enabled(_)
Enabled(entries) ==
    IF Len(entries) = 0 THEN <<>>
    ELSE (IF entries[1].disabled THEN <<>> ELSE <<entries[1]>>)
            \o Enabled(Tail(entries))

\* text.format(a0, a1): each field replaced by the units of its argument
RECURSIVE Format(_, _)
Format(text, args) ==
    IF Len(text) = 0 THEN <<>>
    ELSE (IF text[1] = "{0}" THEN args[1]
          ELSE IF text[1] = "{1}" THEN args[2]
          ELSE <<text[1]>>) \o Format(Tail(text), args)

\* "{0}".format(v) of a season number: an int and its str print alike
FormatVal(v) == IF v.t = "int" THEN NatToStr(v.n) ELSE v.s

Element(text, position) == [text |-> text, position |-> position]

\* lines 762-766
TitleElements(catalog, lexicon) ==
    LET ens == Enabled(lexicon.OnTitle)
    IN  [n \in 1..Len(ens) |->
            Element(Format(ens[n].text, <<<<catalog.title>>>>), ens[n].position)]

\* the "season_number" of an entry of watch that has no such key
NoKey == [t |-> "none", n |-> 0, s |-> <<>>]

\* j["season_number"] raises KeyError for an entry of sel without the key
KeyMissing(watch, sel) == \E j \in sel : watch[j].season_number = NoKey

\* len(j["watched"]) raises TypeError on a bool
AnyBoolWatched(watch) ==
    \E j \in 1..Len(watch) : watch[j].watched.k = "bool"

\* for lexicon entry i, one element per entry of watch whose index is in sel
RECURSIVE SeasonElements(_, _, _, _)
SeasonElements(i, watch, index, sel) ==
    IF index > Len(watch) THEN <<>>
    ELSE (IF index \in sel
          THEN <<Element(Format(i.text,
                                <<FormatVal(watch[index].season_number)>>),
                         i.position)>>
          ELSE <<>>) \o SeasonElements(i, watch, index + 1, sel)

\* the same for every lexicon entry of ens in turn
RECURSIVE ForEachEntry(_, _, _)
ForEachEntry(ens, watch, sel) ==
    IF Len(ens) = 0 THEN <<>>
    ELSE SeasonElements(ens[1], watch, 1, sel)
            \o ForEachEntry(Tail(ens), watch, sel)

\* lines 767-779
StartedSeasonElements(ucat, lexicon) ==
    LET ens == Enabled(lexicon.OnStartedSeason)
        w == ucat.watch.l
        started == {j \in 1..Len(w) : Len(w[j].watched.l) > 0}
    IN  IF ~ucat.exist \/ Len(ens) = 0 THEN [err |-> FALSE, els |-> <<>>]
        ELSE IF AnyBoolWatched(ucat.watch.l) THEN [err |-> TRUE, els |-> <<>>]
        ELSE IF KeyMissing(w, started) THEN [err |-> TRUE, els |-> <<>>]
        ELSE [err |-> FALSE,
              els |-> ForEachEntry(ens, w, started)]

\* j["watched"][0].split("-") == ["1", str(len(catalog["contents"][index]["contents"]))]
CoversSeason(catalog, watch, index) ==
    SplitDash(watch[index].watched.l[1])
        = <<<<"1">>, NatToStr(catalog.contents[index].ncontents)>>

\* catalog["contents"][index] raises IndexError when watch has an entry
\* with exactly (at least) one token at an index the catalog has no unit for
IndexBeyondCatalog(catalog, watch, single) ==
    \E j \in 1..Len(watch) :
        /\ j > Len(catalog.contents)
        /\ IF single THEN Len(watch[j].watched.l) = 1
           ELSE Len(watch[j].watched.l) > 0

\* lines 781-797
FinishSeasonElements(catalog, ucat, lexicon) ==
    LET ens == Enabled(lexicon.OnFinishSeason)
        w == ucat.watch.l
        fin == {j \in 1..Len(w) :
                    Len(w[j].watched.l) = 1 /\ CoversSeason(catalog, w, j)}
    IN  IF ~ucat.exist \/ Len(ens) = 0 THEN [err |-> FALSE, els |-> <<>>]
        ELSE IF AnyBoolWatched(w) \/ IndexBeyondCatalog(catalog, w, TRUE)
        THEN [err |-> TRUE, els |-> <<>>]
        ELSE IF KeyMissing(w, fin) THEN [err |-> TRUE, els |-> <<>>]
        ELSE [err |-> FALSE,
              els |-> ForEachEntry(ens, w, fin)]

\* lines 799-824
UnfinishedSeasonElements(catalog, ucat, lexicon) ==
    LET ens == Enabled(lexicon.OnUnfinishedSeason)
        w == ucat.watch.l
        unf == {j \in 1..Len(w) :
                    Len(w[j].watched.l) > 0 /\ ~CoversSeason(catalog, w, j)}
    IN  IF Len(ens) = 0 THEN [err |-> FALSE, els |-> <<>>]
        ELSE IF ~ucat.exist
        THEN [err |-> FALSE,
              els |-> ForEachEntry(ens, catalog.contents,
                                   1..Len(catalog.contents))]
        ELSE IF AnyBoolWatched(w) \/ IndexBeyondCatalog(catalog, w, FALSE)
        THEN [err |-> TRUE, els |-> <<>>]
        ELSE IF KeyMissing(w, unf) THEN [err |-> TRUE, els |-> <<>>]
        ELSE [err |-> FALSE,
              els |-> ForEachEntry(ens, w, unf)]

\* the elements of an event whose text takes no argument
PlainElements(entries) ==
    LET ens == Enabled(entries)
    IN  [n \in 1..Len(ens) |-> Element(ens[n].text, ens[n].position)]

\* lines 846-872
TomeElements(catalog, ucat, lexicon) ==
    LET ens == Enabled(lexicon.OnTome)
        total == NatToStr(catalog.contents[1].ncontents)
        w == ucat.watch.l
        wd == w[1].watched
        tome == IF Len(wd.l) > 0 THEN PyInt(LastPart(wd.l[Len(wd.l)]))
                ELSE [err |-> FALSE, v |-> 0]
    IN  IF Len(ens) = 0 THEN [err |-> FALSE, els |-> <<>>]
        ELSE IF ~ucat.exist
        THEN [err |-> FALSE,
              els |-> [n \in 1..Len(ens) |->
                        Element(Format(ens[n].text, <<NatToStr(0), total>>),
                                ens[n].position)]]
        ELSE IF Len(w) = 0 THEN [err |-> TRUE, els |-> <<>>]   \* watch[0]
        ELSE IF wd.k = "bool" \/ tome.err THEN [err |-> TRUE, els |-> <<>>]
        ELSE [err |-> FALSE,
              els |-> [n \in 1..Len(ens) |->
                        Element(Format(ens[n].text, <<NatToStr(tome.v), total>>),
                                ens[n].position)]]

\* index (from 1) of the last entry with a non-empty watched list, 1 if none
LastStartedSeason(watch) ==
    IF \E j \in 1..Len(watch) : Len(watch[j].watched.l) > 0
    THEN CHOOSE j \in 1..Len(watch) :
            /\ Len(watch[j].watched.l) > 0
            /\ \A h \in (j + 1)..Len(watch) : Len(watch[h].watched.l) = 0
    ELSE 1

\* lines 882-897: the watch list of the caller's document is changed in place
EpisodeFill(watch) ==
    IF Len(watch) > 0
    THEN IF Len(watch[LastStartedSeason(watch)].watched.l) = 0
         THEN [watch EXCEPT ![LastStartedSeason(watch)].watched =
                                ListV(<<<<"0">>>>)]
         ELSE watch
    ELSE <<Entry(NoKey, ListV(<<<<"0">>>>))>>

\* lines 873-920, one pass per enabled OnEpisode entry; st = [err, els, watch]
RECURSIVE EpisodeLoop(_, _)
EpisodeLoop(ens, st) ==
    IF Len(ens) = 0 \/ st.err THEN st
    ELSE IF AnyBoolWatched(st.watch) THEN [st EXCEPT !.err = TRUE]
    ELSE LET w == EpisodeFill(st.watch)
             wd == w[LastStartedSeason(st.watch)].watched.l
             ep == PyInt(LastPart(wd[Len(wd)]))
         IN  IF ep.err THEN [st EXCEPT !.err = TRUE, !.watch = w]
             ELSE EpisodeLoop(Tail(ens),
                    [st EXCEPT
                        !.watch = w,
                        !.els = IF ep.v = 0 THEN @
                                ELSE @ \o <<Element(Format(ens[1].text,
                                                           <<NatToStr(ep.v)>>),
                                                    ens[1].position)>>])

\* lines 922-932
RankElements(ucat, lexicon) ==
    LET ens == Enabled(lexicon.OnRank)
    IN  IF ucat.exist /\ ucat.rank # PyNone /\ ucat.rank # ""
        THEN [n \in 1..Len(ens) |->
                Element(Format(ens[n].text, <<<<ucat.rank>>>>), ens[n].position)]
        ELSE <<>>

\* elements.sort(key=position): stable
\* an insertion that puts an element before those of its own position
RECURSIVE InsertBeforeEqual(_, _)
InsertBeforeEqual(sorted, e) ==
    IF Len(sorted) = 0 THEN <<e>>
    ELSE IF sorted[Len(sorted)].position < e.position THEN Append(sorted, e)
    ELSE Append(InsertBeforeEqual(SubSeq(sorted, 1, Len(sorted) - 1), e),
                sorted[Len(sorted)])

RECURSIVE InsertByPosition(_, _)
InsertByPosition(sorted, e) ==
    IF Len(sorted) = 0 THEN <<e>>
    ELSE IF sorted[Len(sorted)].position <= e.position THEN Append(sorted, e)
    ELSE Append(InsertByPosition(SubSeq(sorted, 1, Len(sorted) - 1), e),
                sorted[Len(sorted)])

RECURSIVE SortByPosition(_)
SortByPosition(els) ==
    IF Len(els) = 0 THEN <<>>
    ELSE InsertByPosition(SortByPosition(SubSeq(els, 1, Len(els) - 1)),
                          els[Len(els)])

\* lines 945-954: every text followed by a space, the last space removed
RECURSIVE JoinTexts(_)
JoinTexts(els) ==
    IF Len(els) = 0 THEN <<>>
    ELSE els[1].text \o <<" ">> \o JoinTexts(Tail(els))

RemoveSuffixSpace(text) ==
    IF Len(text) > 0 /\ text[Len(text)] = " "
    THEN SubSeq(text, 1, Len(text) - 1) ELSE text

\* does delimiter d (a sequence of units) stand at index i of text
DelimAt(text, i, d) ==
    /\ i + Len(d) - 1 <= Len(text)
    /\ \A h \in 1..Len(d) : text[i + h - 1] = d[h]

\* least j >= from where d stands, 0 if none
NextDelim(text, from, d) ==
    IF \E j \in from..Len(text) : DelimAt(text, j, d)
    THEN CHOOSE j \in from..Len(text) :
            DelimAt(text, j, d) /\ \A h \in from..(j - 1) : ~DelimAt(text, h, d)
    ELSE 0

\* which alternative of (d1|d2)(.*?)\1 matches at index i of text, the first
\* one tried first; 0 if none does
WhichDelim(text, i, delims) ==
    IF /\ DelimAt(text, i, delims[1])
       /\ NextDelim(text, i + Len(delims[1]), delims[1]) > 0
    THEN 1
    ELSE IF /\ Len(delims) > 1
            /\ DelimAt(text, i, delims[2])
            /\ NextDelim(text, i + Len(delims[2]), delims[2]) > 0
    THEN 2
    ELSE 0

\* re.sub(r"(d1|d2)(.*?)\1", open \2 close, text) from index i on: leftmost
\* matches that do not overlap, the inside as short as can be
RECURSIVE SubPairs(_, _, _, _, _)
SubPairs(text, i, delims, open, close) ==
    LET starts == {j \in i..Len(text) : WhichDelim(text, j, delims) > 0}
    IN  IF starts = {} THEN SubSeq(text, i, Len(text))
        ELSE LET p == CHOOSE j \in starts : \A h \in starts : j <= h
                 d == delims[WhichDelim(text, p, delims)]
                 c == NextDelim(text, p + Len(d), d)
             IN  SubSeq(text, i, p - 1) \o <<open>>
                    \o SubSeq(text, p + Len(d), c - 1) \o <<close>>
                    \o SubPairs(text, c + Len(d), delims, open, close)

\* markdown_to_html
MarkdownToHtml(text) ==
    SubPairs(SubPairs(SubPairs(SubPairs(text, 1, <<<<"*", "*">>, <<"_", "_">>>>,
                                        "<strong>", "</strong>"),
                               1, <<<<"*">>, <<"_">>>>, "<em>", "</em>"),
                      1, <<<<"~", "~">>>>, "<del>", "</del>"),
             1, <<<<"+", "+">>>>, "<u>", "</u>")

NoElements == [err |-> FALSE, els |-> <<>>, watch |-> <<>>]

\* lines 945-954 on the elements the rules gave, in the order of the rules;
\* an exception in a rule ends the call
RenderElements(ucat, e1, e2, e3, e4, e4r, e5, e6, e7, e8, e9) ==
    IF e2.err \/ e3.err \/ e4.err \/ e6.err
    THEN [err |-> TRUE, text |-> <<>>,
          watch |-> IF ucat.exist THEN ucat.watch.l ELSE <<>>]
    ELSE IF e7.err THEN [err |-> TRUE, text |-> <<>>, watch |-> e7.watch]
    ELSE [err |-> FALSE,
          text |-> MarkdownToHtml(RemoveSuffixSpace(JoinTexts(SortByPosition(
                      e1 \o e2.els \o e3.els \o e4.els \o e4r \o e5 \o e6.els
                         \o e7.els \o e8 \o e9)))),
          watch |-> e7.watch]

\* get_ulist_text(catalog, ucatalog, lexicon); ucat = NoDoc stands for
\* ucatalog=None.  The result carries the text and the watch list of the
\* caller's document as the call leaves it.
GetUlistText(catalog, ucat, lexicon) ==
    RenderElements(ucat,
        TitleElements(catalog, lexicon),
        IF catalog.type = "tv" THEN StartedSeasonElements(ucat, lexicon)
        ELSE NoElements,
        IF catalog.type = "tv" THEN FinishSeasonElements(catalog, ucat, lexicon)
        ELSE NoElements,
        IF catalog.type = "tv"
        THEN UnfinishedSeasonElements(catalog, ucat, lexicon) ELSE NoElements,
        IF catalog.type = "tv" /\ ~catalog.finished
        THEN PlainElements(lexicon.OnUnFinishedRelease) ELSE <<>>,
        IF ucat.exist /\ ucat.status = "done"
        THEN PlainElements(lexicon.OnFinishStatus) ELSE <<>>,
        IF catalog.type = "books" THEN TomeElements(catalog, ucat, lexicon)
        ELSE NoElements,
        IF catalog.type = "tv" /\ ucat.exist
        THEN EpisodeLoop(Enabled(lexicon.OnEpisode),
                         [err |-> FALSE, els |-> <<>>, watch |-> ucat.watch.l])
        ELSE [err |-> FALSE, els |-> <<>>,
              watch |-> IF ucat.exist /\ catalog.type = "books"
                        THEN ucat.watch.l ELSE <<>>],
        RankElements(ucat, lexicon),
        IF ucat.exist /\ ucat.status = "giveup"
        THEN PlainElements(lexicon.OnGiveUp) ELSE <<>>)

(***************************************************************************)
(* The collections of one user, and the catalog.                           *)
(***************************************************************************)
\* the (type, id) pairs requests name; "ghost" has no catalog document
Keys == {"tv", "books", "movie", "ghost"}

\* the items of db.catalog and of the requests: those of Keys, "show" and
\* "serial"
Items == Keys \cup {"show", "serial"}

KeyType(k) ==
    IF k \in {"tv", "ghost", "show", "serial"} THEN "tv"
    ELSE IF k = "books" THEN "books" ELSE "movie"

\* db.catalog: a series with a released two-episode season and a specials
\* season of two episodes still airing (get_tv_by_id moves season 0 to
\* the end), a book series of two tomes, a movie, and "show": a series of
\* one released season of ShowEpisodes episodes, and "serial": a series of
\* a released season of one episode and a released season of two
Catalog(k) ==
    IF k = "tv" THEN TvItem("T", <<Season(1, 2, TRUE), Season(0, 2, FALSE)>>)
    ELSE IF k = "show" THEN TvItem("Show", <<Season(1, ShowEpisodes, TRUE)>>)
    ELSE IF k = "serial"
    THEN TvItem("Serial", <<Season(1, 1, TRUE), Season(2, 2, TRUE)>>)
    ELSE IF k = "books" THEN BooksItem("B", 2)
    ELSE IF k = "movie" THEN SingleItem("movie", "M")
    ELSE NoDoc

OtherV == [k |-> "other", b |-> FALSE, l |-> <<>>]

\* what a request was: the endpoint, the item, the "changes" or "rank" given
Request(op, k, changes, rank) ==
    [op |-> op, key |-> k, changes |-> changes, rank |-> rank, ret |-> "none"]

NoLast == Request("none", "none", OtherV, "")

NoSnap == [valid |-> FALSE, ucatalog |-> <<>>, ulist |-> <<>>]

NoProbe == [fn |-> "none"]

\* no request is being served step by step
NoThreads == <<>>

SysInit ==
    /\ ucatalog = [k \in Items |-> NoDoc]
    /\ ulist = <<>>
    /\ settings = [ignore_overs |-> TRUE, lexicon |-> "default"]
    /\ last = NoLast
    /\ snap = NoSnap
    /\ pre = [ucatalog |-> [k \in Items |-> NoDoc], ulist |-> <<>>]
    /\ nops = 0
    /\ drift = FALSE
    /\ dupes = [k \in Items |-> <<>>]
    /\ threads = NoThreads

SysIdle ==
    UNCHANGED <<ucatalog, ulist, settings, last, snap, pre, nops, drift,
                dupes, threads>>

(***************************************************************************)
(* List synchronizer.  Each operation is a function of the collections    *)
(* (uc = db.ucatalog, ul = the list of db.ulist, st = db.settings) and    *)
(* its arguments, giving the collections as the call leaves them and      *)
(* ret: what it returns, or "raise" when it ends in an exception.         *)
(***************************************************************************)
Db(ret, uc, ul) == [ret |-> ret, uc |-> uc, ul |-> ul]

\* get_lexicon / get_settings: the stored lexicon, default_lexicon if {}
GetLexicon(st) ==
    IF st.lexicon = "default" THEN DefaultLexicon
    ELSE IF st.lexicon = "markers" THEN MarkersLexicon
    ELSE SeasonsLexicon

ListEntry(k, text, checked, status) ==
    [id |-> k, type |-> KeyType(k), text |-> text, checked |-> checked,
     status |-> status]

Checked(status) == status = "done" \/ status = "giveup"

\* "list.$.<field>": the first entry of the list that matches (id, type)
FirstMatch(ul, k) ==
    IF \E i \in 1..Len(ul) : ul[i].id = k
    THEN CHOOSE i \in 1..Len(ul) : ul[i].id = k /\ \A j \in 1..(i - 1) : ul[j].id # k
    ELSE 0

\* {"$pull": {"list": {"id": id, "type": type}}}
RECURSIVE Pull(_, _)
Pull(ul, k) ==
    IF Len(ul) = 0 THEN <<>>
    ELSE (IF ul[1].id = k THEN <<>> ELSE <<ul[1]>>) \o Pull(Tail(ul), k)

\* lines 993-1017: the two inserts of add_ulist, text being the preview
AddEntryAndDoc(uc, ul, k, r) ==
    IF r.err THEN Db("raise", uc, ul)
    ELSE Db("ok",
            [uc EXCEPT ![k] = UDoc(ListV(<<>>), "", "towatch")],
            Append(ul, ListEntry(k, r.text, FALSE, "towatch")))

\* add_ulist from line 976 on: the count_documents test of line 973 left out
AddUlistUnchecked(uc, ul, st, k) ==
    IF ~Catalog(k).exist THEN Db("None", uc, ul)
    ELSE AddEntryAndDoc(uc, ul, k,
                        GetUlistText(Catalog(k), NoDoc, GetLexicon(st)))

\* add_ulist(user_id, type, id)
AddUlist(uc, ul, st, k) ==
    IF uc[k].exist THEN Db("False", uc, ul)
    ELSE AddUlistUnchecked(uc, ul, st, k)

\* remove_ulist without the $pull of the list entry
RemoveUlistKeepEntry(uc, ul, k) ==
    IF ~uc[k].exist THEN Db("False", uc, ul)
    ELSE Db("True", [uc EXCEPT ![k] = NoDoc], ul)

\* remove_ulist(user_id, type, id)
RemoveUlist(uc, ul, k) ==
    IF ~uc[k].exist THEN Db("False", uc, ul)
    ELSE Db("True", [uc EXCEPT ![k] = NoDoc], Pull(ul, k))

\* the update of the list entry that ends update_ucatalog and toggle_giveup
\* (text, status, checked); r is the rendering of doc, uc1 the progress
\* documents after the write that came before the rendering
WriteListEntry(uc1, ul, k, doc, r) ==
    IF r.err THEN Db("raise", uc1, ul)
    ELSE IF FirstMatch(ul, k) = 0 THEN Db("ok", uc1, ul)
    ELSE Db("ok", uc1,
            [ul EXCEPT ![FirstMatch(ul, k)] =
                [@ EXCEPT !.text = r.text,
                          !.status = doc.status,
                          !.checked = Checked(doc.status)]])

\* lines 1320-1345 of send_update_ucatalog, doc being ucatalog with the
\* status get_status gave
WriteDocAndEntry(uc, ul, st, k, doc) ==
    WriteListEntry([uc EXCEPT ![k] = [@ EXCEPT !.watch = doc.watch,
                                               !.status = doc.status]],
                   ul, k, doc, GetUlistText(Catalog(k), doc, GetLexicon(st)))

\* lines 1316-1318, status being what get_status gave
SendWithStatus(uc, ul, st, k, ucat, status) ==
    IF status.err THEN Db("raise", uc, ul)
    ELSE WriteDocAndEntry(uc, ul, st, k, [ucat EXCEPT !.status = status.v])

\* send_update_ucatalog with get_status told to ignore the give-up
SendUpdateIgnoringGiveUp(uc, ul, st, k, ucat) ==
    SendWithStatus(uc, ul, st, k, ucat,
                   GetStatus(Catalog(k), ucat, TRUE, st.ignore_overs))

\* send_update_ucatalog(catalog, ucatalog): ucat is the document as
\* update_ucatalog changed it in memory
SendUpdateUcatalog(uc, ul, st, k, ucat) ==
    SendWithStatus(uc, ul, st, k, ucat,
                   GetStatus(Catalog(k), ucat, FALSE, st.ignore_overs))

\* lines 1382-1387: the changes pass the validation
ChangesAccepted(changes) ==
    IF changes.k = "list"
    THEN \A i \in 1..Len(changes.l) : ValidFormatUcatalalog(changes.l[i])
    ELSE changes.k = "bool"

\* index of the first entry of watch stored under season_number, 0 if none
SeasonIndex(w, season_number) ==
    IF \E i \in 1..Len(w) : w[i].season_number = season_number
    THEN CHOOSE i \in 1..Len(w) :
            /\ w[i].season_number = season_number
            /\ \A j \in 1..(i - 1) : w[j].season_number # season_number
    ELSE 0

\* lines 1401-1414: the watch of the document with the changes put in
WatchWith(k, watch, season_number, changes) ==
    IF KeyType(k) \in {"tv", "books"}
    THEN IF SeasonIndex(watch.l, season_number) = 0
         THEN ListV(Append(watch.l, Entry(season_number, changes)))
         ELSE ListV([watch.l EXCEPT
                        ![SeasonIndex(watch.l, season_number)].watched = changes])
    ELSE changes

\* lines 1394-1398 and 1531-1534: add_ulist if get_ucatalog finds nothing
EnsureTracked(uc, ul, st, k) ==
    IF uc[k].exist THEN Db("ok", uc, ul) ELSE AddUlist(uc, ul, st, k)

\* lines 1400-1428, db being the collections after lines 1394-1398
UpdateTracked(db, st, k, season_number, changes) ==
    IF ~db.uc[k].exist THEN Db("raise", db.uc, db.ul)
    ELSE SendUpdateUcatalog(db.uc, db.ul, st, k,
            [db.uc[k] EXCEPT !.watch = WatchWith(k, @, season_number, changes)])

\* update_ucatalog with the validation of lines 1382-1387 left out
UpdateUcatalogUnvalidated(uc, ul, st, k, season_number, changes) ==
    IF changes.k = "other" THEN Db("error", uc, ul)
    ELSE UpdateTracked(EnsureTracked(uc, ul, st, k), st, k, season_number,
                       changes)

\* update_ucatalog(user_id, type, id, season_number, changes)
UpdateUcatalog(uc, ul, st, k, season_number, changes) ==
    IF ~ChangesAccepted(changes) THEN Db("error", uc, ul)
    ELSE UpdateTracked(EnsureTracked(uc, ul, st, k), st, k, season_number,
                       changes)

\* lines 1479-1496, doc being ucatalog with its new status
ToggleWrite(uc, ul, st, k, doc) ==
    WriteListEntry([uc EXCEPT ![k] = doc], ul, k, doc,
                   GetUlistText(Catalog(k), doc, GetLexicon(st)))

\* lines 1467-1475, status being the new status
ToggleWithStatus(uc, ul, st, k, status) ==
    IF status.err THEN Db("raise", uc, ul)
    ELSE ToggleWrite(uc, ul, st, k, [uc[k] EXCEPT !.status = status.v])

\* toggle_giveup(user_id, type, id); ucatalog["status"] raises KeyError
\* when the item is not tracked
ToggleGiveup(uc, ul, st, k) ==
    IF ~uc[k].exist THEN Db("raise", uc, ul)
    ELSE ToggleWithStatus(uc, ul, st, k,
            IF uc[k].status = "giveup"
            THEN GetStatus(Catalog(k), uc[k], TRUE, st.ignore_overs)
            ELSE Ok("giveup"))

\* lines 1553-1556 with the flag of the list entry set along with the text
WriteRankTextAndFlag(uc1, ul, k, r) ==
    IF r.err THEN Db("raise", uc1, ul)
    ELSE IF FirstMatch(ul, k) = 0 THEN Db("ok", uc1, ul)
    ELSE Db("ok", uc1, [ul EXCEPT ![FirstMatch(ul, k)].text = r.text,
                                  ![FirstMatch(ul, k)].checked = TRUE])

\* lines 1553-1556: only the text of the list entry is set
WriteRankText(uc1, ul, k, r) ==
    IF r.err THEN Db("raise", uc1, ul)
    ELSE IF FirstMatch(ul, k) = 0 THEN Db("ok", uc1, ul)
    ELSE Db("ok", uc1, [ul EXCEPT ![FirstMatch(ul, k)].text = r.text])

\* lines 1536-1556 with upsert=True in the update_one of line 1537: the rank
\* of an item without progress document makes one
RankTrackedUpsert(db, st, k, rank) ==
    IF ~db.uc[k].exist
    THEN Db("raise", [db.uc EXCEPT ![k] = UDoc(ListV(<<>>), rank, "towatch")],
            db.ul)
    ELSE WriteRankText([db.uc EXCEPT ![k] = [@ EXCEPT !.rank = rank]],
                       db.ul, k,
                       GetUlistText(Catalog(k), [db.uc[k] EXCEPT !.rank = rank],
                                    GetLexicon(st)))

\* lines 1536-1556, db being the collections after lines 1531-1534;
\* get_ulist_text(None, ...) raises TypeError when there is no catalog item
RankTracked(db, st, k, rank) ==
    IF ~db.uc[k].exist THEN Db("raise", db.uc, db.ul)
    ELSE WriteRankText([db.uc EXCEPT ![k] = [@ EXCEPT !.rank = rank]],
                       db.ul, k,
                       GetUlistText(Catalog(k), [db.uc[k] EXCEPT !.rank = rank],
                                    GetLexicon(st)))

\* set_rank(user_id, type, id, rank)
SetRank(uc, ul, st, k, rank) ==
    RankTracked(EnsureTracked(uc, ul, st, k), st, k, rank)

\* lines 1103-1106 with the flag of the entry turned over instead of
\* computed from the status
ReloadedEntryToggling(e, doc, r) ==
    IF r.err THEN [err |-> TRUE, entry |-> e]
    ELSE [err |-> FALSE,
          entry |-> [e EXCEPT !.checked = ~e.checked, !.text = r.text]]

\* lines 1103-1106: checked and text of the entry, its status left as it is
ReloadedEntry(e, doc, r) ==
    IF r.err THEN [err |-> TRUE, entry |-> e]
    ELSE [err |-> FALSE,
          entry |-> [e EXCEPT !.checked = Checked(doc.status), !.text = r.text]]

\* lines 1089-1106, status being what get_status gave
ReloadWithStatus(st, e, ucat, status) ==
    IF status.err THEN [err |-> TRUE, entry |-> e]
    ELSE ReloadedEntry(e, [ucat EXCEPT !.status = status.v],
            GetUlistText(Catalog(e.id), [ucat EXCEPT !.status = status.v],
                         GetLexicon(st)))

\* lines 1082-1106 for one list entry: [err, entry]; an entry without a
\* progress document is not among the results of the aggregation
ReloadEntry(uc, st, e) ==
    IF ~uc[e.id].exist \/ ~Catalog(e.id).exist THEN [err |-> FALSE, entry |-> e]
    ELSE ReloadWithStatus(st, e, uc[e.id],
            GetStatus(Catalog(e.id), uc[e.id], FALSE, st.ignore_overs))

\* lines 1108-1116, res being what the loop gave for each list entry
ReloadWrite(uc, ul, res) ==
    IF \E i \in 1..Len(ul) : res[i].err THEN Db("raise", uc, ul)
    ELSE Db("ok", uc, [i \in 1..Len(ul) |-> res[i].entry])

\* hard_reload(user_id): the status updates go to db.catalog, where no
\* document has a user_id, so that no document is changed by them
HardReload(uc, ul, st) ==
    IF Len(ul) = 0 THEN Db("ok", uc, ul)
    ELSE ReloadWrite(uc, ul, [i \in 1..Len(ul) |-> ReloadEntry(uc, st, ul[i])])

\* the keys of the dict tierlist of get_tierlist
Buckets == {"S", "A", "B", "C", "D", "E", "F", "Unknown"}

\* lines 1612-1614
TierOf(rank) == IF rank = "" THEN "Unknown" ELSE rank

\* the results of the aggregation of get_tierlist: the progress documents
\* joined to their catalog document
Ranked(uc) == {k \in Keys : uc[k].exist /\ Catalog(k).exist}

\* get_tierlist(user_id): [err, tierlist]; tierlist[query] raises KeyError
\* for a rank that is no key of the dict.  A bucket is given as the set of
\* the items appended to it.
GetTierlist(uc) ==
    IF \E k \in Ranked(uc) : TierOf(uc[k].rank) \notin Buckets
    THEN [err |-> TRUE, tierlist |-> [b \in Buckets |-> {}]]
    ELSE [err |-> FALSE,
          tierlist |-> [b \in Buckets |->
                          {k \in Ranked(uc) : TierOf(uc[k].rank) = b}]]

(***************************************************************************)
(* The requests of main.py, one action per endpoint.  Requests are served *)
(* one after the other; a behaviour serves up to MaxOps of them.          *)
(***************************************************************************)
\* request.json["season_number"]: the str or the int of a season number
\* (a movie or a book has no seasons: the argument is not read)
SeasonInputs(k) ==
    IF KeyType(k) \in {"tv", "books"} /\ k # "ghost"
    THEN {StrV(<<"1">>), IntV(1)} ELSE {StrV(<<"1">>)}

\* request.json["changes"]: a bool, a list of tokens (the token "3" and
\* the range "1-3" end beyond every unit of the catalog, "0-0" is no range
\* notation), or something else
ChangesInputs(k) ==
    IF k = "ghost"
    THEN {BoolV(TRUE), ListV(<<<<"1">>, <<"0", "-", "0">>>>), OtherV}
    ELSE {BoolV(TRUE), BoolV(FALSE), ListV(<<<<"1">>>>),
          ListV(<<<<"1", "-", "2">>>>), ListV(<<<<"3">>>>),
          ListV(<<<<"1">>, <<"0", "-", "0">>>>), OtherV}

\* request.json["rank"]: a tier, the empty string, a text that is no tier
RankInputs == {"S", "", "Z"}

Serve(req, db) ==
    /\ nops < MaxOps
    /\ nops' = nops + 1
    /\ ucatalog' = db.uc
    /\ ulist' = db.ul
    /\ last' = [req EXCEPT !.ret = db.ret]
    /\ pre' = [ucatalog |-> ucatalog, ulist |-> ulist]
    /\ UNCHANGED <<settings, drift, probe, dupes, threads>>

\* /api/user/add/<type>/<id>
AddUserList(k) ==
    /\ Serve(Request("add", k, OtherV, ""), AddUlist(ucatalog, ulist, settings, k))
    /\ snap' = [valid |-> TRUE, ucatalog |-> ucatalog, ulist |-> ulist]

\* /api/user/delete/<type>/<id>
DeleteUserList(k) ==
    /\ Serve(Request("remove", k, OtherV, ""), RemoveUlist(ucatalog, ulist, k))
    /\ snap' = IF last.op = "add" /\ last.key = k THEN snap ELSE NoSnap

\* /api/user/update/<type>/<id>
UpdateUserList(k, season_number, changes) ==
    /\ Serve(Request("update", k, changes, ""),
             UpdateUcatalog(ucatalog, ulist, settings, k, season_number, changes))
    /\ snap' = NoSnap

\* /api/user/giveup/<type>/<id>
TogleContentGiveup(k) ==
    /\ Serve(Request("giveup", k, OtherV, ""),
             ToggleGiveup(ucatalog, ulist, settings, k))
    /\ snap' = NoSnap

\* /api/user/rank/<type>/<id>
SetContentRank(k, rank) ==
    /\ Serve(Request("rank", k, OtherV, rank),
             SetRank(ucatalog, ulist, settings, k, rank))
    /\ snap' = NoSnap

\* /api/user/list/hard
HardReloadEndpoint ==
    /\ Serve(Request("hard", "none", OtherV, ""),
             HardReload(ucatalog, ulist, settings))
    /\ snap' = NoSnap

\* /api/tierlist
TierlistEndpoint ==
    /\ Serve(Request("tierlist", "none", OtherV, ""),
             Db(IF GetTierlist(ucatalog).err THEN "raise" ELSE "ok",
                ucatalog, ulist))
    /\ snap' = NoSnap

\* /api/settings/ignore-overs/<value>
SettingsEndpoint(value) ==
    /\ nops < MaxOps
    /\ settings' = [settings EXCEPT !.ignore_overs = value]
    /\ last' = [Request("settings", "none", OtherV, "") EXCEPT !.ret = "ok"]
    /\ snap' = NoSnap
    /\ pre' = [ucatalog |-> ucatalog, ulist |-> ulist]
    /\ nops' = nops + 1
    /\ drift' = (drift \/ (settings.ignore_overs # value /\ Len(ulist) > 0))
    /\ UNCHANGED <<ucatalog, ulist, probe, dupes, threads>>

\* POST /api/lexicon: {} stands for default_lexicon
LexiconInputs == {"default", "seasons"}

ApiLexicon(lexicon) ==
    /\ nops < MaxOps
    /\ settings' = [settings EXCEPT !.lexicon = lexicon]
    /\ last' = [Request("lexicon", "none", OtherV, "") EXCEPT !.ret = "ok"]
    /\ snap' = NoSnap
    /\ pre' = [ucatalog |-> ucatalog, ulist |-> ulist]
    /\ nops' = nops + 1
    /\ drift' = (drift \/ (settings.lexicon # lexicon /\ Len(ulist) > 0))
    /\ UNCHANGED <<ucatalog, ulist, probe, dupes, threads>>

Init == SysInit /\ probe = NoProbe

Next ==
    \/ \E k \in Keys : AddUserList(k)
    \/ \E k \in Keys : DeleteUserList(k)
    \/ \E k \in Keys :
         \E sn \in SeasonInputs(k), ch \in ChangesInputs(k) :
            UpdateUserList(k, sn, ch)
    \/ \E k \in Keys : TogleContentGiveup(k)
    \/ \E k \in Keys, r \in RankInputs : SetContentRank(k, r)
    \/ HardReloadEndpoint
    \/ TierlistEndpoint
    \/ \E v \in BOOLEAN : SettingsEndpoint(v)
    \/ \E l \in LexiconInputs : ApiLexicon(l)

Spec == Init /\ [][Next]_vars

(***************************************************************************)
(* Specification of the validator alone: every string over RangeChars of   *)
(* length up to MaxTokLen is handed to valid_format_ucatalalog.            *)
(***************************************************************************)
RangeChars == {"0", "1", "4", "a", "-", "LF"}

SeqsUpTo(S, n) == UNION {[1..m -> S] : m \in 0..n}

RangeInit ==
    /\ SysInit
    /\ probe \in {[fn |-> "valid_format", arg |-> t, done |-> FALSE, out |-> FALSE] :
                    t \in SeqsUpTo(RangeChars, MaxTokLen)}

ValidateToken ==
    /\ probe.fn = "valid_format"
    /\ ~probe.done
    /\ probe' = [probe EXCEPT !.done = TRUE,
                              !.out = ValidFormatUcatalalog(probe.arg)]
    /\ SysIdle

RangeNext == ValidateToken

SpecRange == RangeInit /\ [][RangeNext]_vars

\* the forms of section 4.1: N, or N-M with M > N, N and M strings of digits
IsRangeNotation(t) ==
    \/ Len(t) > 0 /\ AllDigits(t)
    \/ \E i \in 2..(Len(t) - 1) :
          /\ t[i] = "-"
          /\ AllDigits(SubSeq(t, 1, i - 1))
          /\ AllDigits(SubSeq(t, i + 1, Len(t)))
          /\ DigitsVal(SubSeq(t, i + 1, Len(t))) > DigitsVal(SubSeq(t, 1, i - 1))

\* C1: the validator accepts a string if and only if it is N, or N-M with
\* M > N; every other string is rejected.
C1_AcceptsExactlyRangeNotation ==
    (probe.fn = "valid_format" /\ probe.done)
        => (probe.out <=> IsRangeNotation(probe.arg))

\* C1 without the strings that end in a newline: on those the validator
\* and the range notation agree.
C1_AgreesWithoutTrailingNewline ==
    (/\ probe.fn = "valid_format" /\ probe.done
     /\ ~(Len(probe.arg) > 0 /\ probe.arg[Len(probe.arg)] = "LF"))
        => (probe.out <=> IsRangeNotation(probe.arg))

\* a string ending in a newline has been validated and accepted
C1_NewlineAccepted ==
    /\ probe.fn = "valid_format" /\ probe.done /\ probe.out
    /\ probe.arg = <<"1", "LF">>

(***************************************************************************)
(* Specification of get_status alone: catalog items with units of up to   *)
(* MaxEp elements, and the progress documents update_ucatalog can store    *)
(* for them (validated tokens; season numbers all str or all int).         *)
(***************************************************************************)
\* the token "n", and "1-n"
TokUpTo(n) == NatToStr(n)

TokRange(n) == <<"1", "-">> \o NatToStr(n)

\* the "watched" lists stored for a unit: empty, one token, two tokens
ProbeWatched ==
    {ListV(<<>>), ListV(<<TokUpTo(1), TokUpTo(2)>>)}
        \cup {ListV(<<TokUpTo(n)>>) : n \in 1..MaxEp}
        \cup {ListV(<<TokRange(n)>>) : n \in 2..MaxEp}

\* "absent" or a watched list
ProbeSlot == {[present |-> FALSE, w |-> ListV(<<>>)]}
                \cup {[present |-> TRUE, w |-> w] : w \in ProbeWatched}

\* the season number update_ucatalog stored: the str or the int of n
KeyOf(style, n) == IF style = "str" THEN StrV(NatToStr(n)) ELSE IntV(n)

SlotEntries(style, n, slot) ==
    IF slot.present THEN <<Entry(KeyOf(style, n), slot.w)>> ELSE <<>>

ProbeTvCatalogs ==
    {TvItem("T", <<Season(1, a, f), Season(n2, b, g)>>) :
        a \in 0..MaxEp, b \in 0..MaxEp, f \in BOOLEAN, g \in BOOLEAN,
        n2 \in {0, 2}}
        \cup {TvItem("T", <<Season(1, 10, TRUE), Season(2, 8, TRUE)>>)}

ProbeTvWatch(cat) ==
    IF cat.contents[1].ncontents = 10
    THEN {ListV(<<Entry(KeyOf(st, 1), ListV(<<TokRange(10)>>)),
                  Entry(KeyOf(st, 2), ListV(<<TokRange(n)>>))>>) :
            st \in {"str", "int"}, n \in {5, 8}}
    ELSE {ListV(SlotEntries(st, 1, s1)
                  \o SlotEntries(st, cat.contents[2].season_number.n, s2)) :
            st \in {"str", "int"}, s1 \in ProbeSlot, s2 \in ProbeSlot}

ProbeBooksCatalogs == {BooksItem("B", n) : n \in 0..MaxEp}

ProbeBooksWatch ==
    {ListV(SlotEntries(st, 1, s1)) : st \in {"str", "int"}, s1 \in ProbeSlot}

ProbeSingleWatch == {ListV(<<>>), BoolV(TRUE), BoolV(FALSE), ListV(<<TokUpTo(1)>>)}

StatusProbe(cat, w, st, ig, io) ==
    [fn |-> "get_status", catalog |-> cat, ucatalog |-> UDoc(w, "", st),
     ignore_giveup |-> ig, ignore_overs |-> io, done |-> FALSE, out |-> Raise]

Statuses == {"towatch", "onwatch", "done", "giveup"}

StatusInit ==
    /\ SysInit
    /\ \E st \in Statuses, ig \in BOOLEAN, io \in BOOLEAN :
          \/ \E cat \in ProbeTvCatalogs : \E w \in ProbeTvWatch(cat) :
                probe = StatusProbe(cat, w, st, ig, io)
          \/ \E cat \in ProbeBooksCatalogs : \E w \in ProbeBooksWatch :
                probe = StatusProbe(cat, w, st, ig, io)
          \/ \E w \in ProbeSingleWatch :
                probe = StatusProbe(SingleItem("movie", "M"), w, st, ig, io)

DeriveStatus ==
    /\ probe.fn = "get_status"
    /\ ~probe.done
    /\ probe' = [probe EXCEPT
                    !.done = TRUE,
                    !.out = GetStatus(probe.catalog, probe.ucatalog,
                                      probe.ignore_giveup, probe.ignore_overs)]
    /\ SysIdle

StatusNext == DeriveStatus

SpecStatus == StatusInit /\ [][StatusNext]_vars

(***************************************************************************)
(* What sections 4.2 and 8 say of a unit and its progress entry.           *)
(***************************************************************************)
\* the season an entry is about, as a number, whichever way it was stored
NumOfKey(k) == IF k.t = "int" THEN k.n ELSE PyInt(k.s).v

\* the entries of watch about unit s: by season number for tv, the sole
\* entry for books
EntriesFor(type, watch, s) ==
    IF type = "tv"
    THEN {i \in 1..Len(watch) :
            NumOfKey(watch[i].season_number) = s.season_number.n}
    ELSE {i \in 1..Len(watch) : i = 1}

\* upper bound of a range token
UpperBound(tok) == PyInt(LastPart(tok)).v

UnitComplete(type, watch, s) ==
    \E i \in EntriesFor(type, watch, s) :
        /\ watch[i].watched.k = "list"
        /\ Len(watch[i].watched.l) = 1
        /\ UpperBound(watch[i].watched.l[1]) = s.ncontents

UnitStarted(type, watch, s) ==
    \E i \in EntriesFor(type, watch, s) :
        watch[i].watched.k = "list" /\ Len(watch[i].watched.l) > 0

UnitAbsentOrEmpty(type, watch, s) ==
    \A i \in EntriesFor(type, watch, s) :
        watch[i].watched.k = "list" /\ Len(watch[i].watched.l) = 0

\* more than one element, or at least one and marked fully released
BlocksDone(s) ==
    s.ncontents > 1 \/ (s.ncontents >= 1 /\ s.has_finished /\ s.finished)

NonSkipped(catalog, ignore_overs) ==
    {i \in 1..Len(catalog.contents) :
        ~(catalog.type = "tv" /\ catalog.contents[i].season_number.n = 0
          /\ ignore_overs)}

ProbedStatus == probe.fn = "get_status" /\ probe.done

\* C2: for a tv item not abandoned, get_status returns done when every
\* non-skipped season has an entry, matched by season number, whose single
\* range ends at the season's episode count; otherwise in-progress when a
\* non-skipped season has a non-empty range; otherwise to-consume.
C2_TvStatusByCases ==
    (ProbedStatus /\ probe.catalog.type = "tv" /\ probe.ucatalog.status # "giveup")
        => LET cat == probe.catalog
               w == probe.ucatalog.watch.l
               ns == NonSkipped(cat, probe.ignore_overs)
           IN  probe.out =
                 IF \A i \in ns : UnitComplete("tv", w, cat.contents[i])
                 THEN Ok("done")
                 ELSE IF \E i \in ns : UnitStarted("tv", w, cat.contents[i])
                 THEN Ok("onwatch")
                 ELSE Ok("towatch")

\* C2, its first case: a tv item not abandoned whose non-skipped seasons
\* all have an entry, matched by season number, with a single range that
\* ends at the season's episode count, is done.
C2_CompleteIsDone ==
    (/\ ProbedStatus /\ probe.catalog.type = "tv"
     /\ probe.ucatalog.status # "giveup"
     /\ \A i \in NonSkipped(probe.catalog, probe.ignore_overs) :
            UnitComplete("tv", probe.ucatalog.watch.l, probe.catalog.contents[i]))
        => probe.out = Ok("done")

\* C2, the example of section 8: seasons of (10, 8) episodes, progress
\* [{1,"1-10"},{2,"1-8"}] gives done, with season 2 = "1-5" in-progress.
C2_TvStatusExample ==
    (/\ ProbedStatus /\ probe.ucatalog.status # "giveup"
     /\ probe.catalog.type = "tv"
     /\ probe.catalog.contents[1].ncontents = 10)
        => LET w == probe.ucatalog.watch.l
           IN  probe.out = IF w[2].watched.l[1] = TokRange(8)
                           THEN Ok("done") ELSE Ok("onwatch")

\* C3: with the stored status abandoned, get_status returns abandoned when
\* ignore_giveup is false, and with ignore_giveup true what it returns for
\* the same catalog and watch data under a stored status that is not
\* abandoned.
C3_GiveUpShortCircuit ==
    (ProbedStatus /\ probe.ucatalog.status = "giveup")
        => IF ~probe.ignore_giveup
           THEN probe.out = Ok("giveup")
           ELSE \A st \in Statuses \ {"giveup"}, ig \in BOOLEAN :
                   probe.out = GetStatus(probe.catalog,
                                         [probe.ucatalog EXCEPT !.status = st],
                                         ig, probe.ignore_overs)

\* an abandoned item whose watch data is complete was recomputed to done
C3_Recomputed ==
    /\ ProbedStatus /\ probe.ucatalog.status = "giveup"
    /\ probe.ignore_giveup
    /\ probe.catalog.type = "tv"
    /\ probe.out = Ok("done")
    /\ Len(probe.ucatalog.watch.l) = 2

\* the season numbers of the entries are stored as str
StrKeyed(watch) == \A i \in 1..Len(watch) : watch[i].season_number.t = "str"

\* C5: a unit whose entry is absent or empty forces completion to false
\* exactly when it has more than one element, or at least one and is fully
\* released; this holds for tv seasons and for the tome group, and the
\* call returns a status.  (Stated for progress whose season numbers are
\* stored as str, the form line 1270 matches.)
C5_UnfinishedPenalty ==
    (/\ ProbedStatus /\ probe.catalog.type \in {"tv", "books"}
     /\ StrKeyed(probe.ucatalog.watch.l)
     /\ (probe.ucatalog.status # "giveup" \/ probe.ignore_giveup))
        => LET cat == probe.catalog
               ty == cat.type
               w == probe.ucatalog.watch.l
               ns == NonSkipped(cat, probe.ignore_overs)
           IN  /\ ~probe.out.err
               /\ (\E i \in ns : /\ UnitAbsentOrEmpty(ty, w, cat.contents[i])
                                 /\ BlocksDone(cat.contents[i]))
                     => probe.out.v # "done"
               /\ (\A i \in ns : \/ UnitComplete(ty, w, cat.contents[i])
                                 \/ /\ UnitAbsentOrEmpty(ty, w, cat.contents[i])
                                    /\ ~BlocksDone(cat.contents[i]))
                     => probe.out.v = "done"


(***************************************************************************)
(* What sections 4.4, 7 and 8 say of the requests, stated on the state     *)
(* after a request (last, pre and snap tell which one it was and what the  *)
(* collections were before it).                                            *)
(***************************************************************************)
EntriesOf(ul, k) == {i \in 1..Len(ul) : ul[i].id = k}

NoWrite == ucatalog = pre.ucatalog /\ ulist = pre.ulist

\* the consumed flag is set: True, or what Python takes for true
Consumed(watch) == watch = BoolV(TRUE) \/ (watch.k = "list" /\ watch.l # <<>>)

FlagStatus(watch) == IF Consumed(watch) THEN "done" ELSE "towatch"

C6_SecondAddFails ==
    (last.op = "add" /\ pre.ucatalog[last.key].exist)
        => /\ last.ret = "False"
           /\ NoWrite
           /\ ucatalog[last.key].exist
           /\ Cardinality(EntriesOf(ulist, last.key)) = 1

\* add_ulist has been called for a key an earlier add_ulist made tracked
C6_AddedTwice ==
    /\ last.op = "add" /\ last.ret = "False"
    /\ pre.ucatalog[last.key].exist
    /\ Len(pre.ulist) = 1 /\ pre.ulist[1].id = last.key
    /\ pre.ulist[1].status = "towatch"

\* C7: for an untracked item the catalog has, add_ulist followed by
\* remove_ulist for the same key leaves the list and the progress records
\* exactly as they were before the add_ulist.
C7_AddRemoveRoundTrip ==
    (/\ last.op = "remove" /\ snap.valid
     /\ ~snap.ucatalog[last.key].exist /\ Catalog(last.key).exist)
        => /\ ucatalog = snap.ucatalog
           /\ ulist = snap.ulist

\* an item was added to a list that held another item, and removed again
C7_RoundTripDone ==
    /\ last.op = "remove" /\ last.ret = "True" /\ snap.valid
    /\ ~snap.ucatalog[last.key].exist
    /\ Len(snap.ulist) = 1
    /\ Len(pre.ulist) = 2

\* changes is neither a list nor a bool, or a list with a token the
\* validator rejects
ChangesRejected(changes) ==
    \/ changes.k = "other"
    \/ /\ changes.k = "list"
       /\ \E i \in 1..Len(changes.l) : ~ValidFormatUcatalalog(changes.l[i])

UnitsOf(k, e) ==
    {i \in 1..Len(Catalog(k).contents) :
        IF KeyType(k) = "tv"
        THEN Catalog(k).contents[i].season_number.n = NumOfKey(e.season_number)
        ELSE TRUE}

\* C9: every non-empty watched range stored in a progress record ends at
\* or below the episode count (tome count) of its season (tome group).
C9_RangesWithinCatalog ==
    \A k \in {"tv", "books"} :
        ucatalog[k].exist
            => \A j \in 1..Len(ucatalog[k].watch.l) :
                 LET e == ucatalog[k].watch.l[j]
                 IN  e.watched.k = "list"
                        => \A t \in 1..Len(e.watched.l), i \in UnitsOf(k, e) :
                              UpperBound(e.watched.l[t])
                                 <= Catalog(k).contents[i].ncontents

\* the text get_ulist_text gives for the stored record of k
TextOf(k) == GetUlistText(Catalog(k), ucatalog[k], GetLexicon(settings))

\* C10: update_ucatalog, toggle_giveup and set_rank are all-or-nothing: a
\* call that fails has changed neither the progress record nor the list
\* entry; after a call that returns, the record holds the new value and
\* the list entry the text of the record.
C10_AllOrNothing ==
    (last.op \in {"update", "giveup", "rank"})
        => IF last.ret \in {"raise", "error"} THEN NoWrite
           ELSE /\ ucatalog[last.key].exist
                /\ last.op = "rank" => ucatalog[last.key].rank = last.rank
                /\ \A i \in EntriesOf(ulist, last.key) :
                      /\ ~TextOf(last.key).err
                      /\ ulist[i].text = TextOf(last.key).text


(***************************************************************************)
(* The two views of section 5: progress records and cached list.          *)
(***************************************************************************)
SyncOps == {"add", "remove", "update", "giveup", "rank", "hard"}

\* exactly one list entry per progress record and none without a record
OneToOne(uc, ul) ==
    \A k \in Keys :
        Cardinality(EntriesOf(ul, k)) = IF uc[k].exist THEN 1 ELSE 0

\* every list entry carries the status of its progress record
SameStatus(uc, ul) ==
    \A k \in Keys :
        uc[k].exist => \A i \in EntriesOf(ul, k) : ul[i].status = uc[k].status

ViewsAgree(uc, ul) == OneToOne(uc, ul) /\ SameStatus(uc, ul)

\* the last request was a synchronizer operation that returned
Completed == last.op \in SyncOps /\ last.ret # "raise"

\* C11: after every synchronizer operation that completes, each tracked
\* item's list entry carries the status of its progress record, and there
\* is exactly one list entry per progress record and the other way round.
C11_ViewsAgreeAfterOperation ==
    Completed => ViewsAgree(ucatalog, ulist)

\* C11 as a step: an operation that completes from collections that agree
\* leaves collections that agree.
C11_OperationKeepsAgreement ==
    (Completed /\ ViewsAgree(pre.ucatalog, pre.ulist))
        => ViewsAgree(ucatalog, ulist)

\* C11, the counting half: in every state there is exactly one list entry
\* per progress record and none without one.
C11_OneEntryPerRecord == OneToOne(ucatalog, ulist)

(***************************************************************************)
(* C12: what hard_reload leaves in the two collections.                   *)
(***************************************************************************)
\* hard_reload was the last request and it returned
Reloaded == last.op = "hard" /\ last.ret = "ok"

\* get_status of the catalog and of the stored progress, under the settings
\* in force
Derived(k) == GetStatus(Catalog(k), ucatalog[k], FALSE, settings.ignore_overs)

\* the record of k and its list entry both store the status s
StoredStatusIs(k, s) ==
    /\ ucatalog[k].status = s
    /\ \A i \in EntriesOf(ulist, k) : ulist[i].status = s

\* C12: after hard_reload returns, for every tracked item the status of the
\* progress record and the status of the list entry both equal the status
\* derived from the catalog and the stored progress (checked here from
\* collections that agreed before the reload).
C12_ReloadStoresDerivedStatus ==
    (Reloaded /\ ViewsAgree(pre.ucatalog, pre.ulist))
        => \A k \in Keys :
              ucatalog[k].exist
                  => /\ ~Derived(k).err
                     /\ StoredStatusIs(k, Derived(k).v)

\* the case of C12: a reload that returned over a tracked item whose derived
\* status is no longer the stored one
C12_ReloadedStale ==
    /\ Reloaded
    /\ \E k \in Keys :
          /\ ucatalog[k].exist
          /\ ~Derived(k).err
          /\ Derived(k).v # pre.ucatalog[k].status

(***************************************************************************)
(* C13, C14: hard_reload repeated, and hard_reload over an unchanged      *)
(* catalog.                                                               *)
(***************************************************************************)
\* what one more hard_reload would return and leave
ReloadAgain == HardReload(ucatalog, ulist, settings)

\* C13: hard_reload is idempotent: once it has returned, calling it again
\* with the catalog, the settings and the lexicon as they are returns the
\* same list and leaves the collections as the first call left them.
C13_ReloadIdempotent ==
    Reloaded => ReloadAgain = Db("ok", ucatalog, ulist)

\* the case of C13: a reload that returned and that rewrote the list
C13_ReloadRewrote == Reloaded /\ ulist # pre.ulist

\* the line 1095 of hard_reload finds a status to update for some item
StatusWriteIssued ==
    \E k \in Keys :
        /\ pre.ucatalog[k].exist
        /\ Catalog(k).exist
        /\ Derived(k).v # pre.ucatalog[k].status

\* C14: with catalog, settings and lexicon as they were when the list was
\* last written, hard_reload issues no status update and leaves the list
\* (text, checked and status of every entry) as it was.
C14_ReloadChangesNothing ==
    (Reloaded /\ ~drift) => (~StatusWriteIssued /\ ulist = pre.ulist)

\* the case of C14: a reload over a tracked item with the settings never
\* changed
C14_ReloadedUnchanged == Reloaded /\ ~drift /\ Len(ulist) > 0

(***************************************************************************)
(* C15: toggle_giveup.                                                    *)
(***************************************************************************)
\* the last request was toggle_giveup on k, tracked when it came
ToggledFrom(k) == last.op = "giveup" /\ last.key = k /\ pre.ucatalog[k].exist

\* get_status of what was stored before the last request, the give-up flag
\* ignored
DerivedIgnoringGiveUp(k) ==
    GetStatus(Catalog(k), pre.ucatalog[k], TRUE, settings.ignore_overs)

\* what the record of k and its list entry store after a toggle
ToggleOutcome(k) ==
    IF pre.ucatalog[k].status # "giveup" THEN StoredStatusIs(k, "giveup")
    ELSE /\ ~DerivedIgnoringGiveUp(k).err
         /\ StoredStatusIs(k, DerivedIgnoringGiveUp(k).v)

\* C15: toggle_giveup on a tracked item that is not abandoned sets the status
\* abandoned in the progress record and in the list entry; on an abandoned
\* item it sets both to the status derived with the give-up flag ignored.
C15_ToggleSetsBoth == \A k \in Keys : ToggledFrom(k) => ToggleOutcome(k)

\* C15 for the calls that return
C15_ToggleSetsBothWhenReturns ==
    \A k \in Keys : (ToggledFrom(k) /\ last.ret # "raise") => ToggleOutcome(k)

\* C15, two toggles in a row: after a toggle of an item that was not
\* abandoned, one more toggle returns and leaves record and list entry in the
\* derived status, which is not abandoned.
C15_ToggleTwice ==
    \A k \in Keys :
        (ToggledFrom(k) /\ last.ret # "raise"
            /\ pre.ucatalog[k].status # "giveup")
        => /\ ToggleGiveup(ucatalog, ulist, settings, k).ret # "raise"
           /\ ToggleGiveup(ucatalog, ulist, settings, k).uc[k].status
                = DerivedIgnoringGiveUp(k).v
           /\ DerivedIgnoringGiveUp(k).v # "giveup"
           /\ \A i \in EntriesOf(ulist, k) :
                ToggleGiveup(ucatalog, ulist, settings, k).ul[i].status
                    = DerivedIgnoringGiveUp(k).v

\* the case of C15: a toggle of a tracked item that raised
C15_ToggleRaised ==
    \E k \in Keys : ToggledFrom(k) /\ last.ret = "raise"

(***************************************************************************)
(* C16: what set_rank changes.                                            *)
(***************************************************************************)
\* the last request was set_rank on k, tracked when it came
RankedFrom(k) == last.op = "rank" /\ last.key = k /\ pre.ucatalog[k].exist

\* the record of k differs from what it was in its rank at most, the
\* records of the other items not at all
OnlyRankChanged(k) ==
    /\ ucatalog[k] = [pre.ucatalog[k] EXCEPT !.rank = ucatalog[k].rank]
    /\ \A j \in Keys \ {k} : ucatalog[j] = pre.ucatalog[j]

\* the list entry of k differs from what it was in its text at most, the
\* other entries not at all
OnlyTextChanged(k) ==
    /\ Len(ulist) = Len(pre.ulist)
    /\ \A i \in 1..Len(ulist) :
          IF pre.ulist[i].id = k
          THEN ulist[i] = [pre.ulist[i] EXCEPT !.text = ulist[i].text]
          ELSE ulist[i] = pre.ulist[i]

\* C16: set_rank on a tracked item changes only the rank of its progress
\* record, which becomes the rank given, and the text of its list entry:
\* status and watch of the record, status and checked of the list entry and
\* every other item are as before.
C16_RankChangesRankAndText ==
    \A k \in Keys :
        RankedFrom(k) =>
            /\ ucatalog[k].rank = last.rank
            /\ OnlyRankChanged(k)
            /\ OnlyTextChanged(k)

\* the case of C16: a set_rank that returned and changed rank and text of an
\* entry, another item being tracked as well
C16_Reranked ==
    \E k \in Keys :
        /\ RankedFrom(k)
        /\ last.ret = "ok"
        /\ ucatalog[k].rank # pre.ucatalog[k].rank
        /\ ulist # pre.ulist
        /\ Len(ulist) > 1

(***************************************************************************)
(* C17: get_tierlist over the ranks set_rank stores.                      *)
(***************************************************************************)
\* the buckets item k was appended to
BucketsOf(k) == {b \in Buckets : k \in GetTierlist(ucatalog).tierlist[b]}

\* C17: in every state reached through set_rank with whatever rank,
\* get_tierlist returns, writes nothing, and puts every tracked item in
\* exactly one of the eight buckets, an item of empty rank in Unknown.
C17_TierlistReturns ==
    last.op = "tierlist" =>
        /\ last.ret = "ok"
        /\ NoWrite
        /\ \A k \in Ranked(ucatalog) :
              /\ Cardinality(BucketsOf(k)) = 1
              /\ ucatalog[k].rank = "" => BucketsOf(k) = {"Unknown"}

\* C17 for the ranks that are empty or one of the seven tiers
C17_TierlistOfTiers ==
    (last.op = "tierlist"
        /\ \A k \in Ranked(ucatalog) : TierOf(ucatalog[k].rank) \in Buckets)
    => /\ last.ret = "ok"
       /\ NoWrite
       /\ \A k \in Ranked(ucatalog) :
             /\ Cardinality(BucketsOf(k)) = 1
             /\ ucatalog[k].rank = "" => BucketsOf(k) = {"Unknown"}

\* the case of C17: get_tierlist called with an item of free-text rank
C17_TierlistOfFreeText ==
    /\ last.op = "tierlist"
    /\ \E k \in Ranked(ucatalog) : ucatalog[k].rank = "Z"

(***************************************************************************)
(* Specification of the renderer alone: get_ulist_text is called twice in *)
(* a row with the same catalog item, the same progress document (one      *)
(* object, as a caller holds it) and the same lexicon.                    *)
(***************************************************************************)
\* the watched lists of a season: nothing, one episode, the whole season
RenderWatched == {ListV(<<>>), ListV(<<<<"1">>>>), ListV(<<<<"1", "-", "2">>>>)}

RenderEntries(k) ==
    {Entry(StrV(<<sn>>), w) :
        sn \in (IF k = "tv" THEN {"1", "0"}
                ELSE IF k = "serial" THEN {"1", "2"} ELSE {"1"}),
        w \in RenderWatched}

\* the watch lists of a progress document of k
RenderWatches(k) ==
    SeqsUpTo(RenderEntries(k), IF KeyType(k) = "tv" THEN MaxEp ELSE 1)

RenderDocs(k) ==
    {UDoc(ListV(w), r, st) :
        w \in RenderWatches(k), r \in {"", "S"},
        st \in {"towatch", "onwatch", "done", "giveup"}}

NoResult == [err |-> FALSE, text |-> <<>>]

\* the lexicons the renderer is called with
RenderLexicons == LexiconInputs \cup {"markers"}

RenderProbes(k) ==
    {[fn |-> "get_ulist_text", key |-> k, lexicon |-> l,
      given |-> d, ucatalog |-> d, calls |-> 0,
      first |-> NoResult, second |-> NoResult] :
        l \in RenderLexicons, d \in RenderDocs(k)}

RenderInit ==
    /\ SysInit
    /\ probe \in RenderProbes("tv") \cup RenderProbes("books")
                    \cup RenderProbes("serial")

\* what get_ulist_text gives for the probe as it stands
Rendered ==
    GetUlistText(Catalog(probe.key), probe.ucatalog,
                 GetLexicon([lexicon |-> probe.lexicon]))

\* the caller's document after the call
RenderedDoc == [probe.ucatalog EXCEPT !.watch = ListV(Rendered.watch)]

RenderOnce ==
    /\ probe.fn = "get_ulist_text"
    /\ probe.calls = 0
    /\ probe' = [probe EXCEPT !.calls = 1,
                              !.first = [err |-> Rendered.err,
                                         text |-> Rendered.text],
                              !.ucatalog = RenderedDoc]
    /\ SysIdle

RenderAgain ==
    /\ probe.fn = "get_ulist_text"
    /\ probe.calls = 1
    /\ probe' = [probe EXCEPT !.calls = 2,
                              !.second = [err |-> Rendered.err,
                                          text |-> Rendered.text],
                              !.ucatalog = RenderedDoc]
    /\ SysIdle

RenderNext == RenderOnce \/ RenderAgain

SpecRender == RenderInit /\ [][RenderNext]_vars

\* C18: get_ulist_text is idempotent and leaves its inputs as they were: a
\* call that returns leaves the progress document as it was given, and a
\* second call with the same inputs returns the same string, also for a tv
\* item whose watch is empty or whose season has an empty watched list.
C18_RenderPure ==
    (probe.fn = "get_ulist_text" /\ ~probe.first.err)
        => /\ probe.calls >= 1 => probe.ucatalog = probe.given
           /\ probe.calls = 2 => probe.second = probe.first

\* C18, the returned strings alone
C18_RenderSameText ==
    (probe.fn = "get_ulist_text" /\ ~probe.first.err /\ probe.calls = 2)
        => probe.second = probe.first

\* the case of C18: the renderer returned for a tv item whose watch is empty
C18_RenderedEmptyWatch ==
    /\ probe.fn = "get_ulist_text"
    /\ probe.key = "tv"
    /\ probe.calls = 2
    /\ ~probe.first.err
    /\ probe.given.watch = ListV(<<>>)

(***************************************************************************)
(* C19: requests that name an item the catalog does not hold.             *)
(***************************************************************************)
\* the last request was add, update, rank or giveup for an item without
\* catalog document
OnMissingItem ==
    /\ last.op \in {"add", "update", "rank", "giveup"}
    /\ ~Catalog(last.key).exist

\* what a call that fails gives: None, {"status": "error"}, an exception
Failed == last.ret \in {"None", "error", "raise"}

\* C19: add_ulist, update_ucatalog, set_rank and toggle_giveup for an item
\* that has no catalog document fail and write nothing.
C19_MissingItemNoWrite == OnMissingItem => (Failed /\ NoWrite)

\* the case of C19: an update with valid changes for an item without catalog
\* document, while another item is tracked
C19_MissingItemUpdated ==
    /\ OnMissingItem
    /\ last.op = "update"
    /\ ChangesAccepted(last.changes)
    /\ Len(ulist) > 0

(***************************************************************************)
(* Specification of the requests about one item: "show", a series of one  *)
(* released season of ShowEpisodes episodes.                              *)
(***************************************************************************)
\* the token "1-n" for the n episodes of the season, and "1-h" for half
FullSeason == <<"1", "-">> \o NatToStr(ShowEpisodes)

HalfSeason == <<"1", "-">> \o NatToStr(ShowEpisodes \div 2)

ShowChanges ==
    {ListV(<<FullSeason>>), ListV(<<HalfSeason>>), ListV(<<>>),
     ListV(<<HalfSeason, FullSeason>>), BoolV(TRUE), OtherV}

ShowNext ==
    \/ AddUserList("show")
    \/ DeleteUserList("show")
    \/ \E sn \in SeasonInputs("show"), ch \in ShowChanges :
          UpdateUserList("show", sn, ch)
    \/ TogleContentGiveup("show")
    \/ \E r \in RankInputs : SetContentRank("show", r)
    \/ HardReloadEndpoint
    \/ TierlistEndpoint

SpecShow == Init /\ [][ShowNext]_vars

\* add_ulist of "show" was the last request and it returned
ShowAdded == last.op = "add" /\ last.key = "show" /\ last.ret = "ok"

\* the last request was update_ucatalog of "show", just added, with the
\* whole season as changes and the int of the catalog as season number
ShowWatched ==
    /\ last.op = "update"
    /\ last.key = "show"
    /\ last.changes = ListV(<<FullSeason>>)
    /\ pre.ucatalog["show"] = UDoc(ListV(<<>>), "", "towatch")
    /\ ucatalog["show"].watch = ListV(<<Entry(IntV(1), ListV(<<FullSeason>>))>>)

\* the same with the str of the number as season number
ShowWatchedStr ==
    /\ last.op = "update"
    /\ last.key = "show"
    /\ last.changes = ListV(<<FullSeason>>)
    /\ pre.ucatalog["show"] = UDoc(ListV(<<>>), "", "towatch")
    /\ ucatalog["show"].watch =
            ListV(<<Entry(StrV(<<"1">>), ListV(<<FullSeason>>))>>)

\* record and list entry of "show" are done, the entry checked
ShowDone ==
    /\ StoredStatusIs("show", "done")
    /\ \A i \in EntriesOf(ulist, "show") : ulist[i].checked

\* C20: after add_ulist of a tv item of one released season of 12 episodes
\* the stored status is towatch and the text is the title alone; after a
\* following update_ucatalog of that season with ["1-12"], the season number
\* being the one of the catalog, the status is done in the progress record
\* and in the list entry, and checked is true.
C20_AddThenWatchSeason ==
    /\ ShowAdded =>
          /\ StoredStatusIs("show", "towatch")
          /\ \A i \in EntriesOf(ulist, "show") : ulist[i].text = <<"Show">>
    /\ ShowWatched => ShowDone

\* C20, the first half: what add_ulist stores
C20_AddedToConsume ==
    ShowAdded =>
        /\ StoredStatusIs("show", "towatch")
        /\ \A i \in EntriesOf(ulist, "show") :
              ulist[i].text = <<"Show">> /\ ~ulist[i].checked

\* C20 with the season number given as a str
C20_WatchSeasonStrKey == ShowWatchedStr => ShowDone

\* the case of C20: the update of the whole season after the add returned
C20_SeasonWatched == ShowWatched /\ last.ret = "ok"

(***************************************************************************)
(* C21: the order and the joining of the fragments of get_ulist_text.     *)
(***************************************************************************)
\* the fragments of the probe in the order the events are gone through:
\* title, started season, finished season, unfinished season, still
\* releasing, finished status, tome, episode, rank, give-up
Emitted ==
    LET c == Catalog(probe.key)
        u == probe.given
        l == GetLexicon([lexicon |-> probe.lexicon])
    IN  TitleElements(c, l)
        \o (IF c.type = "tv" THEN StartedSeasonElements(u, l).els ELSE <<>>)
        \o (IF c.type = "tv" THEN FinishSeasonElements(c, u, l).els ELSE <<>>)
        \o (IF c.type = "tv" THEN UnfinishedSeasonElements(c, u, l).els
            ELSE <<>>)
        \o (IF c.type = "tv" /\ ~c.finished
            THEN PlainElements(l.OnUnFinishedRelease) ELSE <<>>)
        \o (IF u.status = "done" THEN PlainElements(l.OnFinishStatus) ELSE <<>>)
        \o (IF c.type = "books" THEN TomeElements(c, u, l).els ELSE <<>>)
        \o (IF c.type = "tv"
            THEN EpisodeLoop(Enabled(l.OnEpisode),
                             [err |-> FALSE, els |-> <<>>,
                              watch |-> u.watch.l]).els
            ELSE <<>>)
        \o RankElements(u, l)
        \o (IF u.status = "giveup" THEN PlainElements(l.OnGiveUp) ELSE <<>>)

\* the place of fragment i of els in ascending order of position, fragments
\* of equal position in the order of els
PlaceOf(els, i) ==
    1 + Cardinality({j \in 1..Len(els) :
                        \/ els[j].position < els[i].position
                        \/ els[j].position = els[i].position /\ j < i})

InOrder(els) ==
    [n \in 1..Len(els) |->
        els[CHOOSE i \in 1..Len(els) : PlaceOf(els, i) = n]]

\* the texts of els with one space between two of them
RECURSIVE SpaceJoined(_)
SpaceJoined(els) ==
    IF Len(els) = 0 THEN <<>>
    ELSE IF Len(els) = 1 THEN els[1].text
    ELSE els[1].text \o <<" ">> \o SpaceJoined(Tail(els))

\* no space at either end and no two spaces in a row
SingleSpaced(text) ==
    /\ Len(text) > 0 => text[1] # " " /\ text[Len(text)] # " "
    /\ \A i \in 1..(Len(text) - 1) : ~(text[i] = " " /\ text[i + 1] = " ")

\* C21: the renderer gives its fragments in ascending order of position,
\* fragments of equal position in the order of emission, joined by exactly
\* one space and with no space at the end (the text returned is the
\* markdown conversion of that line).
C21_FragmentsInOrder ==
    (probe.fn = "get_ulist_text" /\ probe.calls >= 1 /\ ~probe.first.err)
        => /\ probe.first.text = MarkdownToHtml(SpaceJoined(InOrder(Emitted)))
           /\ SingleSpaced(SpaceJoined(InOrder(Emitted)))
           /\ SingleSpaced(probe.first.text)

\* the case of C21: a text of two fragments that have the same position,
\* one emitted for the started season and one for the unfinished season
C21_EqualPositions ==
    /\ probe.fn = "get_ulist_text"
    /\ probe.calls >= 1
    /\ ~probe.first.err
    /\ \E i, j \in 1..Len(Emitted) :
          /\ i < j
          /\ Emitted[i].position = Emitted[j].position
          /\ Emitted[i].text # Emitted[j].text

(***************************************************************************)
(* C22: the season fragments of a tv item.                                *)
(***************************************************************************)
\* the renderer was called for a tv item with the lexicon that has
\* OnFinishSeason and OnUnfinishedSeason enabled
SeasonsRendered ==
    /\ probe.fn = "get_ulist_text"
    /\ probe.calls >= 1
    /\ KeyType(probe.key) = "tv"
    /\ probe.lexicon = "markers"

\* the episode counts of the seasons of the catalog with the season
\* number of entry e
OwnCounts(e) ==
    {Catalog(probe.key).contents[i].ncontents :
        i \in {h \in 1..Len(Catalog(probe.key).contents) :
                FormatVal(Catalog(probe.key).contents[h].season_number)
                    = FormatVal(e.season_number)}}

\* the single watched range of entry e is 1..n, n the episode count of the
\* season of e
CoversOwnSeason(e) ==
    /\ Len(e.watched.l) = 1
    /\ \E n \in OwnCounts(e) :
          e.watched.l[1] = <<"1", "-">> \o NatToStr(n)

\* the entries of the watch given that cover their season, and those with
\* a range that does not
FinishedEntries ==
    {j \in 1..Len(probe.given.watch.l) :
        CoversOwnSeason(probe.given.watch.l[j])}

UnfinishedEntries ==
    {j \in 1..Len(probe.given.watch.l) :
        /\ Len(probe.given.watch.l[j].watched.l) > 0
        /\ ~CoversOwnSeason(probe.given.watch.l[j])}

\* C22: with OnFinishSeason and OnUnfinishedSeason enabled, the render of a
\* tv item with progress returns, emits the finished-season fragment for
\* exactly the seasons whose stored range covers 1..episode count of that
\* season, and the unfinished-season fragment for the seasons whose range
\* does not, whatever the order and the number of the entries.
C22_SeasonFragmentsByOwnSeason ==
    SeasonsRendered =>
        /\ ~probe.first.err
        /\ FinishSeasonElements(Catalog(probe.key), probe.given,
                                MarkersLexicon).els
            = ForEachEntry(Enabled(MarkersLexicon.OnFinishSeason),
                           probe.given.watch.l, FinishedEntries)
        /\ UnfinishedSeasonElements(Catalog(probe.key), probe.given,
                                    MarkersLexicon).els
            = ForEachEntry(Enabled(MarkersLexicon.OnUnfinishedSeason),
                           probe.given.watch.l, UnfinishedEntries)

\* C22 for a watch whose entries stand at the index of their season in the
\* catalog
C22_SeasonFragmentsInCatalogOrder ==
    (SeasonsRendered
        /\ Len(probe.given.watch.l) <= Len(Catalog(probe.key).contents)
        /\ \A j \in 1..Len(probe.given.watch.l) :
              FormatVal(probe.given.watch.l[j].season_number)
                = FormatVal(Catalog(probe.key).contents[j].season_number))
    => /\ ~probe.first.err
       /\ FinishSeasonElements(Catalog(probe.key), probe.given,
                               MarkersLexicon).els
            = ForEachEntry(Enabled(MarkersLexicon.OnFinishSeason),
                           probe.given.watch.l, FinishedEntries)
       /\ UnfinishedSeasonElements(Catalog(probe.key), probe.given,
                                   MarkersLexicon).els
            = ForEachEntry(Enabled(MarkersLexicon.OnUnfinishedSeason),
                           probe.given.watch.l, UnfinishedEntries)

\* the case of C22: the only entry of the watch is the whole second season
C22_SecondSeasonFirst ==
    /\ SeasonsRendered
    /\ probe.key = "serial"
    /\ probe.given.watch.l =
          <<Entry(StrV(<<"2">>), ListV(<<<<"1", "-", "2">>>>))>>

(***************************************************************************)
(* C23: the flag of a list entry and its status.                          *)
(***************************************************************************)
\* every entry of ul is checked if and only if its status is done or giveup
CheckedMatches(ul) ==
    \A i \in 1..Len(ul) : ul[i].checked <=> ul[i].status \in {"done", "giveup"}

\* C23: after any sequence of synchronizer operations, hard_reload after a
\* change of the settings included, every list entry is checked if and only
\* if its status is done or giveup.
C23_CheckedIffDone == CheckedMatches(ulist)

\* C23 for the operations other than hard_reload: each of them keeps the
\* flags matching
C23_KeptByOperations ==
    (last.op \in SyncOps \ {"hard"} /\ CheckedMatches(pre.ulist))
        => CheckedMatches(ulist)

\* the case of C23: a hard_reload that returned and left a done entry
\* unchecked
C23_ReloadUnchecked ==
    /\ Reloaded
    /\ \E i \in 1..Len(ulist) : ~ulist[i].checked /\ ulist[i].status = "done"

(***************************************************************************)
(* C24: the tome fragment of a book series.                               *)
(***************************************************************************)
\* the renderer was called for the book series
BooksRendered ==
    /\ probe.fn = "get_ulist_text"
    /\ probe.calls >= 1
    /\ probe.key = "books"

\* the upper bound of the sole watched range of the watch w, 0 if none
CurrentTome(w) ==
    IF Len(w) = 0 THEN 0
    ELSE IF Len(w[1].watched.l) = 0 THEN 0
    ELSE UpperBound(w[1].watched.l[Len(w[1].watched.l)])

\* the fragment "t<current>/t<total>" at the position of OnTome
TomeFragment(current) ==
    <<Element(<<"t">> \o NatToStr(current) \o <<"/", "t">>
                \o NatToStr(Catalog("books").contents[1].ncontents), 2)>>

\* C24: the render of a book series with a progress record returns and has
\* the tome fragment current/total, current being the upper bound of the sole
\* watched range and 0 when there is none, also when the watch is empty;
\* total is the tome count; without progress record current is 0.
C24_TomeFragment ==
    /\ BooksRendered =>
          /\ ~probe.first.err
          /\ TomeElements(Catalog("books"), probe.given,
                          GetLexicon([lexicon |-> probe.lexicon])).els
                = TomeFragment(CurrentTome(probe.given.watch.l))
    /\ TomeElements(Catalog("books"), NoDoc, DefaultLexicon).els
            = TomeFragment(0)

\* C24 for a progress record whose watch has its entry
C24_TomeFragmentWithEntry ==
    (BooksRendered /\ Len(probe.given.watch.l) > 0) =>
        /\ ~probe.first.err
        /\ TomeElements(Catalog("books"), probe.given,
                        GetLexicon([lexicon |-> probe.lexicon])).els
              = TomeFragment(CurrentTome(probe.given.watch.l))

\* the case of C24: the renderer called for a book series whose progress
\* record has an empty watch
C24_EmptyWatchRendered == BooksRendered /\ Len(probe.given.watch.l) = 0

(***************************************************************************)
(* C25: the sub-records of a progress record after update_ucatalog.       *)
(***************************************************************************)
\* the progress records whose watch is a list of sub-records
SeriesTracked ==
    {k \in Items : ucatalog[k].exist /\ KeyType(k) \in {"tv", "books"}}

\* every sub-record of w holds one range token at most
OneTokenEach(w) == \A j \in 1..Len(w) : Len(w[j].watched.l) <= 1

\* no two sub-records of w carry the same season number
SeasonsDistinct(w) ==
    \A i, j \in 1..Len(w) :
        i # j => FormatVal(w[i].season_number) # FormatVal(w[j].season_number)

\* no two sub-records of w carry the same value (the same number of the
\* same type) as season number
SeasonKeysDistinct(w) ==
    \A i, j \in 1..Len(w) : i # j => w[i].season_number # w[j].season_number

\* C25: after any sequence of update_ucatalog calls every sub-record of a
\* tv or books progress record holds at most one range token, and no two
\* sub-records of a progress record share a season number.
C25_OneRangePerSeason ==
    \A k \in SeriesTracked :
        /\ OneTokenEach(ucatalog[k].watch.l)
        /\ SeasonsDistinct(ucatalog[k].watch.l)

\* C25, the tokens alone
C25_OneTokenPerSeason ==
    \A k \in SeriesTracked : OneTokenEach(ucatalog[k].watch.l)

\* C25, the season numbers alone
C25_OneRecordPerSeason ==
    \A k \in SeriesTracked : SeasonsDistinct(ucatalog[k].watch.l)

\* C25 for season numbers told apart by their type
C25_OneRecordPerSeasonKey ==
    \A k \in SeriesTracked : SeasonKeysDistinct(ucatalog[k].watch.l)

\* the case of C25: an update with a list of two valid tokens that returned
C25_TwoTokensSent ==
    /\ last.op = "update"
    /\ last.ret = "ok"
    /\ last.changes.k = "list"
    /\ Len(last.changes.l) = 2

(***************************************************************************)
(* Specification of two requests served at the same time (app.run serves  *)
(* each request in a thread of its own and api.py takes no lock).  Each   *)
(* access to a collection is one step; what a thread computes between two  *)
(* accesses is part of the step of the next access.  All requests are for *)
(* the same user and the item "serial".                                   *)
(***************************************************************************)
ConcKey == "serial"

Tids == {1, 2}

ConcRequest(op, sn, changes, rank) ==
    [op |-> op, sn |-> sn, changes |-> changes, rank |-> rank]

\* the requests a thread may serve
ConcRequests ==
    {ConcRequest("add", StrV(<<>>), OtherV, ""),
     ConcRequest("remove", StrV(<<>>), OtherV, ""),
     ConcRequest("update", StrV(<<"1">>), ListV(<<<<"1">>>>), ""),
     ConcRequest("update", StrV(<<"2">>), ListV(<<<<"1", "-", "2">>>>), ""),
     ConcRequest("giveup", StrV(<<>>), OtherV, ""),
     ConcRequest("rank", StrV(<<>>), OtherV, "S"),
     ConcRequest("hard", StrV(<<>>), OtherV, "")}

\* a thread before its first step: doc is its local ucatalog, list its
\* local copy of the list; alone tells that no step of it was taken while
\* the other thread was between its first and its last step, met is where
\* the other thread was at its first step and still tells that the other
\* thread was there at each of its steps
NewThread(req) ==
    [req |-> req, pc |-> "start", doc |-> NoDoc, list |-> <<>>,
     ret |-> "none", alone |-> TRUE, met |-> "none", still |-> TRUE]

NoItems == [k \in Items |-> NoDoc]

\* the collections the two requests find: nothing tracked, another item
\* tracked, the item just added, the item with its first season watched
ConcStarts ==
    {Db("ok", NoItems, <<>>),
     AddUlist(NoItems, <<>>, [ignore_overs |-> TRUE, lexicon |-> "default"],
              "movie"),
     AddUlist(NoItems, <<>>, [ignore_overs |-> TRUE, lexicon |-> "default"],
              ConcKey),
     UpdateUcatalog(NoItems, <<>>,
                    [ignore_overs |-> TRUE, lexicon |-> "default"],
                    ConcKey, StrV(<<"1">>), ListV(<<<<"1">>>>))}

ConcInit ==
    /\ settings = [ignore_overs |-> TRUE, lexicon |-> "default"]
    /\ last = NoLast
    /\ snap = NoSnap
    /\ nops = 0
    /\ drift = FALSE
    /\ probe = NoProbe
    /\ dupes = [k \in Items |-> <<>>]
    /\ \E db \in ConcStarts :
          /\ ucatalog = db.uc
          /\ ulist = db.ul
          /\ pre = [ucatalog |-> db.uc, ulist |-> db.ul]
    /\ threads \in {<<NewThread(r1), NewThread(r2)>> :
                        r1 \in ConcRequests, r2 \in ConcRequests}

ConcIdle == UNCHANGED <<settings, last, snap, pre, nops, drift, probe>>

Other(t) == 3 - t

\* thread t is between its first and its last step
Mid(t) == threads[t].pc \notin {"start", "done"}

\* what a step of thread t leaves in alone, met and still
MetAt(t) ==
    IF threads[t].pc = "start" THEN threads[Other(t)].pc ELSE threads[t].met

Moved(t, r) ==
    [r EXCEPT !.alone = @ /\ ~Mid(Other(t)),
              !.met = MetAt(t),
              !.still = @ /\ threads[Other(t)].pc = MetAt(t)]

\* thread t goes on to pc with doc as its local ucatalog
Goto(t, pc, doc) ==
    threads' = [threads EXCEPT ![t] =
                    Moved(t, [@ EXCEPT !.pc = pc, !.doc = doc])]

\* thread t ends with ret
Finish(t, ret) ==
    threads' = [threads EXCEPT ![t] =
                    Moved(t, [@ EXCEPT !.pc = "done", !.ret = ret])]

\* thread t is at pc, or at its first step of a request op
At(t, pc, op) ==
    /\ threads # NoThreads
    /\ \/ threads[t].pc = pc
       \/ threads[t].pc = "start" /\ threads[t].req.op = op

\* where add_ulist goes back to: its own request ends, the others read the
\* document again (lines 1398, 1534)
AfterAdd(t, ret) ==
    IF threads[t].req.op = "add" THEN Finish(t, ret)
    ELSE Goto(t, "reread", threads[t].doc)

\* line 973: count_documents
AddCount(t) ==
    /\ At(t, "add_count", "add")
    /\ IF ucatalog[ConcKey].exist THEN AfterAdd(t, "False")
       ELSE Goto(t, "add_push", threads[t].doc)
    /\ UNCHANGED <<ucatalog, ulist, dupes>>
    /\ ConcIdle

\* lines 976-1007: the catalog document read, the text rendered, the entry
\* pushed
AddPush(t) ==
    /\ At(t, "add_push", "none")
    /\ ulist' = Append(ulist,
                  ListEntry(ConcKey,
                            GetUlistText(Catalog(ConcKey), NoDoc,
                                         GetLexicon(settings)).text,
                            FALSE, "towatch"))
    /\ Goto(t, "add_insert", threads[t].doc)
    /\ UNCHANGED <<ucatalog, dupes>>
    /\ ConcIdle

\* lines 1008-1017: insert_one; a document of the item after the first one
\* goes to dupes
AddInsert(t) ==
    /\ At(t, "add_insert", "none")
    /\ IF ucatalog[ConcKey].exist
       THEN /\ dupes' = [dupes EXCEPT ![ConcKey] =
                            Append(@, UDoc(ListV(<<>>), "", "towatch"))]
            /\ UNCHANGED ucatalog
       ELSE /\ ucatalog' = [ucatalog EXCEPT ![ConcKey] =
                                UDoc(ListV(<<>>), "", "towatch")]
            /\ UNCHANGED dupes
    /\ AfterAdd(t, "ok")
    /\ UNCHANGED ulist
    /\ ConcIdle

\* where update_ucatalog and set_rank go on with the document they read
WritePc(t) ==
    IF threads[t].req.op = "update" THEN "upd_write" ELSE "rank_write"

\* lines 1382-1397 and 1531-1533: the changes validated, get_ucatalog,
\* add_ulist if nothing found
ReadOrAdd(t) ==
    /\ threads # NoThreads
    /\ threads[t].pc = "start"
    /\ threads[t].req.op \in {"update", "rank"}
    /\ IF threads[t].req.op = "update"
          /\ ~ChangesAccepted(threads[t].req.changes)
       THEN Finish(t, "error")
       ELSE IF ucatalog[ConcKey].exist
            THEN Goto(t, WritePc(t), ucatalog[ConcKey])
            ELSE Goto(t, "add_count", NoDoc)
    /\ UNCHANGED <<ucatalog, ulist, dupes>>
    /\ ConcIdle

\* lines 1398 and 1534: get_ucatalog after add_ulist
Reread(t) ==
    /\ At(t, "reread", "none")
    /\ Goto(t, WritePc(t), ucatalog[ConcKey])
    /\ UNCHANGED <<ucatalog, ulist, dupes>>
    /\ ConcIdle

\* {"$set": fields} on the first document of the item, if there is one
SetInDoc(watch, status) ==
    IF ucatalog[ConcKey].exist
    THEN ucatalog' = [ucatalog EXCEPT ![ConcKey] =
                        [@ EXCEPT !.watch = watch, !.status = status]]
    ELSE UNCHANGED ucatalog

\* lines 1316-1328, doc being the local ucatalog with the changes put in and
\* status what get_status gave for it
UpdateWriteWith(t, doc, status) ==
    IF status.err
    THEN Finish(t, "raise") /\ UNCHANGED ucatalog
    ELSE /\ SetInDoc(doc.watch, status.v)
         /\ Goto(t, "upd_list", [doc EXCEPT !.status = status.v])

\* lines 1400-1414
UpdateChange(t, doc) ==
    UpdateWriteWith(t, doc,
                    GetStatus(Catalog(ConcKey), doc, FALSE,
                              settings.ignore_overs))

\* lines 1400-1428 and 1316-1328: ucatalog["watch"] raises KeyError when
\* get_ucatalog found nothing
UpdateWrite(t) ==
    /\ At(t, "upd_write", "none")
    /\ IF ~threads[t].doc.exist
       THEN Finish(t, "raise") /\ UNCHANGED ucatalog
       ELSE UpdateChange(t,
                [threads[t].doc EXCEPT
                    !.watch = WatchWith(ConcKey, @, threads[t].req.sn,
                                        threads[t].req.changes)])
    /\ UNCHANGED <<ulist, dupes>>
    /\ ConcIdle

\* the list after a write that gave db
EndWith(t, db) == ulist' = db.ul /\ Finish(t, db.ret)

\* lines 1329-1345 and 1484-1496: the text rendered from the local
\* ucatalog, the list entry updated
EntryWrite(t) ==
    /\ At(t, "upd_list", "none")
    /\ EndWith(t, WriteListEntry(ucatalog, ulist, ConcKey, threads[t].doc,
                                 GetUlistText(Catalog(ConcKey), threads[t].doc,
                                              GetLexicon(settings))))
    /\ UNCHANGED <<ucatalog, dupes>>
    /\ ConcIdle

\* lines 1463: get_ucatalog; ucatalog["status"] raises KeyError when it
\* found nothing
ToggleRead(t) ==
    /\ At(t, "none", "giveup")
    /\ threads[t].pc = "start"
    /\ IF ucatalog[ConcKey].exist THEN Goto(t, "tog_write", ucatalog[ConcKey])
       ELSE Finish(t, "raise")
    /\ UNCHANGED <<ucatalog, ulist, dupes>>
    /\ ConcIdle

\* lines 1467-1482, status being the new status
ToggleWriteWith(t, status) ==
    IF status.err
    THEN Finish(t, "raise") /\ UNCHANGED ucatalog
    ELSE /\ IF ucatalog[ConcKey].exist
            THEN ucatalog' = [ucatalog EXCEPT ![ConcKey].status = status.v]
            ELSE UNCHANGED ucatalog
         /\ Goto(t, "upd_list", [threads[t].doc EXCEPT !.status = status.v])

ToggleStatusWrite(t) ==
    /\ At(t, "tog_write", "none")
    /\ ToggleWriteWith(t,
          IF threads[t].doc.status = "giveup"
          THEN GetStatus(Catalog(ConcKey), threads[t].doc, TRUE,
                         settings.ignore_overs)
          ELSE Ok("giveup"))
    /\ UNCHANGED <<ulist, dupes>>
    /\ ConcIdle

\* lines 1536-1540: the rank set in the first document of the item
RankWrite(t) ==
    /\ At(t, "rank_write", "none")
    /\ IF ucatalog[ConcKey].exist
       THEN ucatalog' = [ucatalog EXCEPT ![ConcKey].rank = threads[t].req.rank]
       ELSE UNCHANGED ucatalog
    /\ Goto(t, "rank_list",
            IF threads[t].doc.exist
            THEN [threads[t].doc EXCEPT !.rank = threads[t].req.rank]
            ELSE threads[t].doc)
    /\ UNCHANGED <<ulist, dupes>>
    /\ ConcIdle

\* lines 1543-1556: get_ulist_text raises KeyError when get_ucatalog found
\* nothing
RankTextWrite(t) ==
    /\ At(t, "rank_list", "none")
    /\ IF ~threads[t].doc.exist
       THEN Finish(t, "raise") /\ UNCHANGED ulist
       ELSE EndWith(t, WriteRankText(ucatalog, ulist, ConcKey,
                          GetUlistText(Catalog(ConcKey), threads[t].doc,
                                       GetLexicon(settings))))
    /\ UNCHANGED <<ucatalog, dupes>>
    /\ ConcIdle

\* line 1135: count_documents
RemoveCount(t) ==
    /\ At(t, "none", "remove")
    /\ threads[t].pc = "start"
    /\ IF ucatalog[ConcKey].exist THEN Goto(t, "rem_delete", threads[t].doc)
       ELSE Finish(t, "False")
    /\ UNCHANGED <<ucatalog, ulist, dupes>>
    /\ ConcIdle

\* line 1138: delete_one takes the first document of the item
RemoveDelete(t) ==
    /\ At(t, "rem_delete", "none")
    /\ IF Len(dupes[ConcKey]) > 0
       THEN /\ ucatalog' = [ucatalog EXCEPT ![ConcKey] = Head(dupes[ConcKey])]
            /\ dupes' = [dupes EXCEPT ![ConcKey] = Tail(@)]
       ELSE /\ ucatalog' = [ucatalog EXCEPT ![ConcKey] = NoDoc]
            /\ UNCHANGED dupes
    /\ Goto(t, "rem_pull", threads[t].doc)
    /\ UNCHANGED ulist
    /\ ConcIdle

\* lines 1139-1142: $pull
RemovePull(t) ==
    /\ At(t, "rem_pull", "none")
    /\ ulist' = Pull(ulist, ConcKey)
    /\ Finish(t, "True")
    /\ UNCHANGED <<ucatalog, dupes>>
    /\ ConcIdle

\* lines 1033-1041: the list read
HardRead(t) ==
    /\ At(t, "none", "hard")
    /\ threads[t].pc = "start"
    /\ IF Len(ulist) = 0 THEN Finish(t, "ok")
       ELSE threads' = [threads EXCEPT ![t] =
                          Moved(t, [@ EXCEPT !.pc = "hard_agg",
                                             !.list = ulist])]
    /\ UNCHANGED <<ucatalog, ulist, dupes>>
    /\ ConcIdle

\* the documents hard_reload renders the entries from: of the results of
\* the aggregation for an item the last one is the one that stays
LastDocs ==
    [k \in Items |->
        IF Len(dupes[k]) > 0 THEN dupes[k][Len(dupes[k])] ELSE ucatalog[k]]

\* lines 1103-1106, res being what the loop gave for each entry
HardKeep(t, res) ==
    IF \E i \in 1..Len(res) : res[i].err THEN Finish(t, "raise")
    ELSE threads' = [threads EXCEPT ![t] =
                        Moved(t, [@ EXCEPT
                            !.pc = "hard_write",
                            !.list = [i \in 1..Len(res) |-> res[i].entry]])]

\* lines 1078-1106: the aggregation and the loop over its results
HardAggregate(t) ==
    /\ At(t, "hard_agg", "none")
    /\ HardKeep(t, [i \in 1..Len(threads[t].list) |->
                        ReloadEntry(LastDocs, settings, threads[t].list[i])])
    /\ UNCHANGED <<ucatalog, ulist, dupes>>
    /\ ConcIdle

\* lines 1108-1116: the whole list written
HardWrite(t) ==
    /\ At(t, "hard_write", "none")
    /\ ulist' = threads[t].list
    /\ Finish(t, "ok")
    /\ UNCHANGED <<ucatalog, dupes>>
    /\ ConcIdle

ConcNext ==
    \E t \in Tids :
        \/ AddCount(t)
        \/ AddPush(t)
        \/ AddInsert(t)
        \/ ReadOrAdd(t)
        \/ Reread(t)
        \/ UpdateWrite(t)
        \/ EntryWrite(t)
        \/ ToggleRead(t)
        \/ ToggleStatusWrite(t)
        \/ RankWrite(t)
        \/ RankTextWrite(t)
        \/ RemoveCount(t)
        \/ RemoveDelete(t)
        \/ RemovePull(t)
        \/ HardRead(t)
        \/ HardAggregate(t)
        \/ HardWrite(t)

SpecConc == ConcInit /\ [][ConcNext]_vars

\* both requests were served to their end
AllDone ==
    /\ threads # NoThreads
    /\ \A t \in Tids : threads[t].pc = "done"

\* the request of thread t served alone on db
Served(t, db) ==
    LET r == threads[t].req
        st == [ignore_overs |-> TRUE, lexicon |-> "default"]
    IN CASE r.op = "add" -> AddUlist(db.uc, db.ul, st, ConcKey)
         [] r.op = "remove" -> RemoveUlist(db.uc, db.ul, ConcKey)
         [] r.op = "update" ->
                UpdateUcatalog(db.uc, db.ul, st, ConcKey, r.sn, r.changes)
         [] r.op = "giveup" -> ToggleGiveup(db.uc, db.ul, st, ConcKey)
         [] r.op = "rank" -> SetRank(db.uc, db.ul, st, ConcKey, r.rank)
         [] OTHER -> HardReload(db.uc, db.ul, st)

\* the collections after the two requests served one after the other,
\* thread t first
SerialFrom(t) ==
    Served(Other(t), Served(t, Db("ok", pre.ucatalog, pre.ulist)))

Stored(db) == [uc |-> db.uc, ul |-> db.ul]

SerialOutcomes == {Stored(SerialFrom(1)), Stored(SerialFrom(2))}

IsSerialOutcome ==
    /\ Stored(Db("ok", ucatalog, ulist)) \in SerialOutcomes
    /\ Len(dupes[ConcKey]) = 0

\* the steps of two requests served one after the other give what the
\* operations give
SerialRunsAgree ==
    (AllDone /\ \A t \in Tids : threads[t].alone) => IsSerialOutcome

\* the operations of the two requests
OpsOf == {threads[t].req.op : t \in Tids}

\* the entry of the item is in the list and every entry of it stores the
\* status of the stored record and the text rendered from it
EntryReflectsRecord ==
    /\ ucatalog[ConcKey].exist
    /\ EntriesOf(ulist, ConcKey) # {}
    /\ \A i \in EntriesOf(ulist, ConcKey) :
          /\ ulist[i].status = ucatalog[ConcKey].status
          /\ ulist[i].text = GetUlistText(Catalog(ConcKey), ucatalog[ConcKey],
                                          GetLexicon(settings)).text

\* two requests that change the progress of the tracked item
ProgressPair ==
    /\ threads # NoThreads
    /\ pre.ucatalog[ConcKey].exist
    /\ OpsOf \subseteq {"update", "giveup"}

\* C26: when two requests on the same item of the same user (update_ucatalog
\* of two seasons, or update_ucatalog and toggle_giveup) are served at the
\* same time, every interleaving of their reads and writes ends in
\* collections that serving them one after the other, in one of the two
\* orders, gives as well, and the list entry stores the status and the text
\* of the finally stored record.
C26_SerialOutcome ==
    (AllDone /\ ProgressPair) => (IsSerialOutcome /\ EntryReflectsRecord)

\* C26 for the runs in which no step of a request falls between two steps of
\* the other
C26_SerialRuns ==
    (AllDone /\ ProgressPair /\ \A t \in Tids : threads[t].alone)
        => (IsSerialOutcome /\ EntryReflectsRecord)

\* both requests updated a season of their own and the record stores one of
\* the two seasons only
C26_SeasonLost ==
    /\ AllDone
    /\ ProgressPair
    /\ pre.ucatalog[ConcKey].watch = ListV(<<>>)
    /\ threads[1].req.op = "update" /\ threads[1].req.sn = StrV(<<"1">>)
    /\ threads[2].req.op = "update" /\ threads[2].req.sn = StrV(<<"2">>)
    /\ \A t \in Tids : threads[t].ret = "ok"
    /\ Len(ucatalog[ConcKey].watch.l) = 1

\* two requests that add the item: add_ulist called by the request itself
\* or by update_ucatalog or set_rank
AddingPair ==
    /\ threads # NoThreads
    /\ OpsOf \subseteq {"add", "update", "rank"}
    /\ "add" \in OpsOf

\* C27: under every interleaving of two add_ulist of the same item served at
\* the same time (one of them possibly the add_ulist within update_ucatalog
\* or set_rank) there is never more than one list entry and one ucatalog
\* document of the item.
C27_AtMostOneRecord ==
    AddingPair => /\ Cardinality(EntriesOf(ulist, ConcKey)) <= 1
                  /\ Len(dupes[ConcKey]) = 0

\* C27 for the runs in which no step of a request falls between two steps of
\* the other
C27_SerialRuns ==
    (AddingPair /\ \A t \in Tids : threads[t].alone)
        => /\ Cardinality(EntriesOf(ulist, ConcKey)) <= 1
           /\ Len(dupes[ConcKey]) = 0

\* two add_ulist returned having written: the list has two entries of the
\* item and ucatalog two documents
C27_AddedTwice ==
    /\ AllDone
    /\ OpsOf = {"add"}
    /\ \A t \in Tids : threads[t].ret = "ok"
    /\ Cardinality(EntriesOf(ulist, ConcKey)) = 2
    /\ Len(dupes[ConcKey]) = 1

\* thread t served hard_reload and the other thread op
ReloadWith(t, op) ==
    /\ threads[t].req.op = "hard"
    /\ threads[Other(t)].req.op = op

\* what the list holds of the request of thread t once it has returned
\* having written
ListWriteKept(t) ==
    LET r == threads[t]
    IN /\ (r.req.op = "add" /\ r.ret = "ok")
            => EntriesOf(ulist, ConcKey) # {}
       /\ (r.req.op = "remove" /\ r.ret = "True")
            => EntriesOf(ulist, ConcKey) = {}
       /\ (r.req.op \in {"update", "giveup"} /\ r.ret = "ok")
            => EntryReflectsRecord

\* C28: hard_reload served at the same time as add_ulist, remove_ulist,
\* update_ucatalog or toggle_giveup of the same user never loses the list
\* write of that request: in every interleaving, once both have returned,
\* the item added has its list entry, the item removed has none and the
\* entry of the item updated reflects the stored record.
C28_ListWriteKept ==
    AllDone =>
        \A t \in Tids :
            (\E op \in {"add", "remove", "update", "giveup"} : ReloadWith(t, op))
                => ListWriteKept(Other(t))

\* C28 for the runs in which no step of a request falls between two steps of
\* the other
C28_SerialRuns ==
    (AllDone /\ \A t \in Tids : threads[t].alone) =>
        \A t \in Tids :
            (\E op \in {"add", "remove", "update", "giveup"} : ReloadWith(t, op))
                => ListWriteKept(Other(t))

\* add_ulist returned having added the item while hard_reload was served,
\* and the list has no entry of the item
C28_AddedEntryLost ==
    /\ AllDone
    /\ \E t \in Tids : ReloadWith(t, "add") /\ threads[Other(t)].ret = "ok"
    /\ ucatalog[ConcKey].exist
    /\ EntriesOf(ulist, ConcKey) = {}

(***************************************************************************)
(* C29: a request that stops between its two writes, hard_reload after it. *)
(***************************************************************************)
\* thread t has made the first of the two writes of its operation and not
\* the second one
BetweenWrites(t) ==
    \/ threads[t].req.op = "add" /\ threads[t].pc = "add_insert"
    \/ threads[t].req.op = "remove" /\ threads[t].pc = "rem_pull"
    \/ threads[t].req.op \in {"update", "giveup"} /\ threads[t].pc = "upd_list"

\* thread h served hard_reload to its end while the other thread stood
\* between its two writes, where it still stands
ReloadedAfterStop(h) ==
    /\ threads # NoThreads
    /\ threads[h].req.op = "hard"
    /\ threads[h].pc = "done"
    /\ threads[h].ret = "ok"
    /\ threads[h].still
    /\ threads[h].met = threads[Other(h)].pc
    /\ BetweenWrites(Other(h))

\* every document of ucatalog has one list entry, every list entry one
\* document
OneEntryEach ==
    \A k \in Items :
        /\ Cardinality(EntriesOf(ulist, k)) = IF ucatalog[k].exist THEN 1 ELSE 0
        /\ Len(dupes[k]) = 0

\* text and checked of every entry are those of its document
TextsMatch ==
    \A k \in Items :
        ucatalog[k].exist =>
            \A i \in EntriesOf(ulist, k) :
                /\ ulist[i].checked = Checked(ucatalog[k].status)
                /\ ulist[i].text = GetUlistText(Catalog(k), ucatalog[k],
                                                GetLexicon(settings)).text

\* the status of every entry is the one of its document
StatusesMatch ==
    \A k \in Items :
        ucatalog[k].exist =>
            \A i \in EntriesOf(ulist, k) : ulist[i].status = ucatalog[k].status

\* C29: when add_ulist, remove_ulist, update_ucatalog or toggle_giveup stops
\* between its two writes, a hard_reload after it restores the agreement of
\* the two collections: every list entry has exactly one ucatalog document
\* and every document one entry, and status, checked and text of each entry
\* are those of its document.
C29_ReloadRepairs ==
    (\E h \in Tids : ReloadedAfterStop(h))
        => (OneEntryEach /\ StatusesMatch /\ TextsMatch)

\* C29, the part hard_reload does: after update_ucatalog or toggle_giveup
\* stopped between its two writes, text and checked of every entry are
\* those of its document.
C29_ReloadRepairsText ==
    (\E h \in Tids :
        /\ ReloadedAfterStop(h)
        /\ threads[Other(h)].req.op \in {"update", "giveup"})
        => (OneEntryEach /\ TextsMatch)

\* add_ulist stopped after its $push, hard_reload returned and the entry
\* has no document
C29_EntryWithoutRecord ==
    /\ \E h \in Tids :
          ReloadedAfterStop(h) /\ threads[Other(h)].req.op = "add"
    /\ ~ucatalog[ConcKey].exist
    /\ EntriesOf(ulist, ConcKey) # {}

\* update_ucatalog stopped after its write to ucatalog, hard_reload returned
\* and the entry stores another status than the document
C29_StatusNotRepaired ==
    /\ \E h \in Tids :
          ReloadedAfterStop(h) /\ threads[Other(h)].req.op = "update"
    /\ OneEntryEach
    /\ TextsMatch
    /\ ~StatusesMatch

(***************************************************************************)
(* C30: the status giveup under the operations other than toggle_giveup.  *)
(***************************************************************************)
\* the document of k stored the status giveup before the last request
WasAbandoned(k) ==
    pre.ucatalog[k].exist /\ pre.ucatalog[k].status = "giveup"

\* C30: a ucatalog document whose status is giveup keeps this status across
\* update_ucatalog, set_rank and hard_reload, whatever the watch written and
\* however the call ends; only toggle_giveup, or remove_ulist and a new
\* add_ulist, takes the item out of it.
C30_AbandonedStays ==
    \A k \in Keys :
        (WasAbandoned(k) /\ last.op \in {"update", "rank", "hard"})
            => (ucatalog[k].exist /\ ucatalog[k].status = "giveup")

\* the case of C30: update_ucatalog wrote another watch to an abandoned item
C30_AbandonedUpdated ==
    /\ last.op = "update"
    /\ last.ret = "ok"
    /\ WasAbandoned(last.key)
    /\ ucatalog[last.key].watch # pre.ucatalog[last.key].watch
    /\ ucatalog[last.key].status = "giveup"

=============================================================================
